---------------------------- MODULE Spec2Model ----------------------------
(***************************************************************************)
(* Z3OverworldEditor: the ROM import pipeline of src/src/import.rs (with   *)
(* the Flip and Area helpers of src/src/state.rs), as state machines.      *)
(*                                                                         *)
(*   SpecDecompress  decompress(), one action per decoded block            *)
(*   SpecAddr        From<SnesAddr> for PcAddr                             *)
(*   SpecCanon       the tile lookup of load_areas, one action per cell    *)
(*   SpecImport      Importer::import, one action per stage / region       *)
(***************************************************************************)
EXTENDS Integers, Sequences, FiniteSets, TLC

VARIABLES
    \* decompress(rom, addr, big_endian_offset)
    rom,                \* Rom.data, the bytes of the ROM (address a is rom[a+1])
    addr,               \* the read cursor (PcAddr)
    out,                \* the decoded bytes so far
    big_endian_offset,  \* byte order of a back-reference offset
    result,             \* "run" | "ok" (Ok(out)) | "err" (Err) | "panic" (assert!)
    block_type,         \* the last decoded block: its type (-1: none yet),
    size,               \*   its length
    offset,             \*   and, for a type 4 block, its offset
    \* impl From<SnesAddr> for PcAddr
    conversions,        \* the conversions made: [snes, ok, pc]
    \* the editor (state.rs) and its project directory (persist.rs)
    state,              \* EditorState: [project_dir, palettes, palettes_id_idx_map,
                        \*   palette_idx, theme_names, area_names, areas,
                        \*   main_area_id, side_area_id]
    files,              \* [palettes: Palettes/<name>.json by name,
                        \*  areas: Areas/<area>/<theme>.json by AreaId]
    \* Importer::import (import.rs)
    image,              \* the ROM file, as the tables the stages read
    importer,           \* Importer: [constants, hud_palette_ids, .., pal_bg_color]
    pc,                 \* the stage of import_all that runs next
    import_result,      \* "idle" | "run" | "ok" | "err" (Err) | "panic"
    before,             \* history: state and files when the import began
    \* locals of load_areas
    parent,             \* the loop variable of for parent in 0..=0x81
    tile_lookup,
    used_tiles,
    h_flippable,
    v_flippable,
    cell,               \* the last cell written: [palette_idx, tile, tile_idx, flip]
    calls,              \* the number of cells written
    \* update (update.rs)
    undo_stack,         \* EditorState.undo_stack: Vec<(Message, Message)>
    redo_stack,         \* EditorState.redo_stack
    last_update         \* history: the last call of update, [input, message, undo,
                        \*   outcome, undo_before, redo_before, prev]; prev holds
                        \*   the two stacks before the call ahead of it when that
                        \*   call was an undo

dvars == <<rom, addr, out, big_endian_offset, result, block_type, size, offset>>

avars == <<conversions>>

evars == <<state, files>>

ivars == <<image, importer, pc, import_result, before, parent>>

cvars == <<tile_lookup, used_tiles, h_flippable, v_flippable, cell, calls>>

uvars == <<undo_stack, redo_stack, last_update>>

vars == <<dvars, avars, evars, ivars, cvars, uvars>>

-----------------------------------------------------------------------------
(* Bit operations on naturals (Rust's >>, <<, & and |).                    *)

RECURSIVE BitAnd(_, _)
BitAnd(a, b) ==
    IF a = 0 \/ b = 0 THEN 0
    ELSE (a % 2) * (b % 2) + 2 * BitAnd(a \div 2, b \div 2)

RECURSIVE BitOr(_, _)
BitOr(a, b) ==
    IF a = 0 THEN b
    ELSE IF b = 0 THEN a
    ELSE (IF a % 2 = 1 \/ b % 2 = 1 THEN 1 ELSE 0) + 2 * BitOr(a \div 2, b \div 2)

Shr(a, n) == a \div (2 ^ n)

Shl(a, n) == a * (2 ^ n)

-----------------------------------------------------------------------------
(* Rom: bounds-checked reads.  Err stands for the Err(..) of ensure!.      *)

Err == -1

ReadU8(a) == IF a < Len(rom) THEN rom[a + 1] ELSE Err

ReadU16(a) ==
    IF a + 1 < Len(rom) THEN BitOr(rom[a + 1], Shl(rom[a + 2], 8)) ELSE Err

\* read_n: the n bytes at a, or Err (here the sequence <<Err>>, never a byte string)
ReadN(a, n) == IF a + n <= Len(rom) THEN SubSeq(rom, a + 1, a + n) ELSE <<Err>>

-----------------------------------------------------------------------------
(* decompress                                                              *)

MaxRomLen == 5

\* The bytes the bounded ROMs are made of: control bytes of every block type
\* (0x00 raw/1, 0x01 raw/2, 0x42 word run/3, 0x61 incrementing/2, 0x82 copy/3,
\* 0xA0 type 5, 0xE4 byte run with an extended header) and the terminator 0xFF;
\* 0x00, 0x01 and 0xFF also serve as data, offsets, lengths and seeds.
ByteAlphabet == {0, 1, 66, 97, 130, 160, 228, 255}

\* The scenario of the specification: a raw block of 8 bytes, then 0xFF.
ExampleStream == <<7, 65, 65, 1, 2, 3, 4, 5, 6, 255>>

RomSet ==
    UNION {[1..n -> ByteAlphabet] : n \in 0..MaxRomLen} \cup {ExampleStream}

Running == result = "run"

byte == ReadU8(addr)

Extended == Shr(byte, 5) = 7

\* block_type and size as the header gives them, and where the block's data starts
HdrType == IF ~Extended THEN Shr(byte, 5) ELSE BitAnd(Shr(byte, 2), 7)

\* mutant: the extended length takes three bits of the control byte
HdrSizeThreeBits ==
    IF ~Extended THEN BitAnd(byte, 31) + 1
    ELSE BitOr(Shl(BitAnd(byte, 7), 8), ReadU8(addr + 1)) + 1

HdrSize ==
    IF ~Extended THEN BitAnd(byte, 31) + 1
    ELSE BitOr(Shl(BitAnd(byte, 3), 8), ReadU8(addr + 1)) + 1

HdrData == IF ~Extended THEN addr + 1 ELSE addr + 2

HdrRead ==
    /\ Running
    /\ byte # Err
    /\ byte # 255
    /\ Extended => ReadU8(addr + 1) # Err

Fail(kind) ==
    /\ result' = kind
    /\ UNCHANGED <<rom, addr, out, big_endian_offset, block_type, size, offset>>
    /\ UNCHANGED <<uvars, avars, evars, ivars, cvars>>

Emit(bytes, next, off) ==
    /\ out' = bytes
    /\ addr' = next
    /\ block_type' = HdrType
    /\ size' = HdrSize
    /\ offset' = off
    /\ UNCHANGED <<rom, big_endian_offset, result>>
    /\ UNCHANGED <<uvars, avars, evars, ivars, cvars>>

\* [b0, b1].repeat(n)
RepeatPair(b0, b1, n) == [k \in 1..(2 * n) |-> IF k % 2 = 1 THEN b0 ELSE b1]

\* mutant: b + 1 without the wrap at 256
PushIncrementingNoWrap(o, b, n) == o \o [k \in 1..n |-> b + k - 1]

\* for _ in 0..n { out.push(b); b = b.wrapping_add(1); }
\* the k-th byte pushed is b after k - 1 wrapping additions of 1
PushIncrementing(o, b, n) == o \o [k \in 1..n |-> (b + k - 1) % 256]

\* mutant: the read index never advances (out.push(out[offset]))
RECURSIVE CopyEarlierStale(_, _, _)
CopyEarlierStale(o, from, to) ==
    IF from >= to THEN o ELSE CopyEarlierStale(Append(o, o[from + 1]), from, to - 1)

\* for i in from..to { out.push(out[i]); }
RECURSIVE CopyEarlier(_, _, _)
CopyEarlier(o, from, to) ==
    IF from >= to THEN o ELSE CopyEarlier(Append(o, o[from + 1]), from + 1, to)

\* a read of the control byte or of the extended length byte fails
HeaderReadFails ==
    /\ Running
    /\ IF byte = Err THEN TRUE
       ELSE byte # 255 /\ Extended /\ ReadU8(addr + 1) = Err
    /\ Fail("err")

Terminator ==
    /\ Running
    /\ byte = 255
    /\ result' = "ok"
    /\ UNCHANGED <<rom, addr, out, big_endian_offset, block_type, size, offset>>
    /\ UNCHANGED <<uvars, avars, evars, ivars, cvars>>

RawBlock ==
    /\ HdrRead
    /\ HdrType = 0
    /\ IF ReadN(HdrData, HdrSize) = <<Err>> THEN Fail("err")
       ELSE Emit(out \o ReadN(HdrData, HdrSize), HdrData + HdrSize, offset)

ByteRunBlock ==
    /\ HdrRead
    /\ HdrType = 1
    /\ LET value == ReadU8(HdrData) IN
       IF value = Err THEN Fail("err")
       ELSE Emit(out \o [k \in 1..HdrSize |-> value], HdrData + 1, offset)

WordRunBlock ==
    /\ HdrRead
    /\ HdrType = 2
    /\ LET b0 == ReadU8(HdrData)
           b1 == ReadU8(HdrData + 1)
       IN IF b0 = Err \/ b1 = Err THEN Fail("err")
          ELSE Emit(out \o RepeatPair(b0, b1, Shr(HdrSize, 1))
                        \o (IF BitAnd(HdrSize, 1) = 1 THEN <<b0>> ELSE <<>>),
                    HdrData + 2, offset)

IncrementingBlock ==
    /\ HdrRead
    /\ HdrType = 3
    /\ LET b == ReadU8(HdrData) IN
       IF b = Err THEN Fail("err")
       ELSE Emit(PushIncrementing(out, b, HdrSize), HdrData + 1, offset)

\* the 16-bit offset of a back-reference, in the caller's byte order
CopyOffset ==
    IF big_endian_offset
    THEN IF ReadU8(HdrData) = Err \/ ReadU8(HdrData + 1) = Err THEN Err
         ELSE BitOr(Shl(ReadU8(HdrData), 8), ReadU8(HdrData + 1))
    ELSE ReadU16(HdrData)

CopyBlock ==
    /\ HdrRead
    /\ HdrType = 4
    /\ IF CopyOffset = Err THEN Fail("err")
       ELSE IF ~(CopyOffset < Len(out)) THEN Fail("panic")
       ELSE Emit(CopyEarlier(out, CopyOffset, CopyOffset + HdrSize),
                 HdrData + 2, CopyOffset)

BadBlockType ==
    /\ HdrRead
    /\ HdrType \notin 0..4
    /\ Fail("err")

\* no decompress call is in progress
DIdle ==
    /\ rom = <<>>
    /\ addr = 0
    /\ out = <<>>
    /\ big_endian_offset = FALSE
    /\ result = "idle"
    /\ block_type = -1
    /\ size = 0
    /\ offset = 0

DInit ==
    /\ rom \in RomSet
    /\ addr = 0
    /\ out = <<>>
    /\ big_endian_offset \in BOOLEAN
    /\ result = "run"
    /\ block_type = -1
    /\ size = 0
    /\ offset = 0

\* streams for the block header alone: every control byte, a second byte
\* (the low byte of an extended length, or data), a data byte and 0xFF
HeaderRoms == {<<c, b, 0, 255>> : c \in 0..255, b \in {0, 1, 127, 255}}

\* a decompress call on a stream of HeaderRoms
HeaderInit ==
    /\ rom \in HeaderRoms
    /\ addr = 0
    /\ out = <<>>
    /\ big_endian_offset \in BOOLEAN
    /\ result = "run"
    /\ block_type = -1
    /\ size = 0
    /\ offset = 0

DNext ==
    \/ HeaderReadFails
    \/ Terminator
    \/ RawBlock
    \/ ByteRunBlock
    \/ WordRunBlock
    \/ IncrementingBlock
    \/ CopyBlock
    \/ BadBlockType

-----------------------------------------------------------------------------
(* impl From<SnesAddr> for PcAddr                                          *)

MaxConversions == 2

\* SnesAddr::from_bank_offset(bank, offset)
FromBankOffset(bank, off) == BitOr(Shl(bank, 16), off)

\* Banks and offsets of the bounded addresses: the first banks, a bank pair that
\* differs in bit 22 only (0x3D, 0x7D), a WRAM bank (0x7E), mirror banks (0x80,
\* 0xBD as in SnesAddr(0xBD8000), 0xFF); both ends of both halves of a bank.
SampleBanks == {0, 1, 61, 125, 126, 128, 189, 255}

SampleOffsets == {0, 32767, 32768, 32769, 65535}

SnesAddrs == {FromBankOffset(b, o) : b \in SampleBanks, o \in SampleOffsets}

\* mutant: the assertion is missing
UpperHalfUnchecked(a) == TRUE

\* assert!(addr.0 & 0x8000 == 0x8000)
UpperHalf(a) == BitAnd(a, 32768) = 32768

\* mutant: the bank mask 0x1F8000 for 0x3F8000
PcAddrNarrowMask(a) == BitOr(BitAnd(Shr(a, 1), 2064384), BitAnd(a, 32767))

\* PcAddr(addr.0 >> 1 & 0x3F8000 | addr.0 & 0x7FFF)
PcAddr(a) == BitOr(BitAnd(Shr(a, 1), 4161536), BitAnd(a, 32767))

\* PcAddr::from(a): the offset, or the panic of the assertion
FromSnesAddr ==
    /\ Cardinality(conversions) < MaxConversions
    /\ \E a \in SnesAddrs :
          conversions' = conversions \cup
              {IF UpperHalf(a) THEN [snes |-> a, ok |-> TRUE, pc |-> PcAddr(a)]
               ELSE [snes |-> a, ok |-> FALSE, pc |-> Err]}
    /\ UNCHANGED <<uvars, dvars, evars, ivars, cvars>>

AIdle == conversions = {}

AInit == conversions = {}

ANext == FromSnesAddr

-----------------------------------------------------------------------------
(* state.rs: Flip, Tile, Palette, Screen, Area and the editor state          *)

TileDim == 2

GridDim == 1

\* a screen is half a map slot wide: 32 cells of the 64 (16 positions of 4 cells)
ScreenDim == (4 * GridDim) \div 2

FlipOrder == <<"None", "Horizontal", "Vertical", "Both">>

Flips == {FlipOrder[i] : i \in DOMAIN FlipOrder}

\* slice::reverse
Reverse(s) == [i \in 1..Len(s) |-> s[Len(s) + 1 - i]]

\* Flip::apply_to_pixels
ApplyToPixels(flip, pixels) ==
    CASE flip = "None" -> pixels
      [] flip = "Horizontal" -> [y \in 1..Len(pixels) |-> Reverse(pixels[y])]
      [] flip = "Vertical" -> Reverse(pixels)
      [] flip = "Both" -> Reverse([y \in 1..Len(pixels) |-> Reverse(pixels[y])])

\* Flip::apply_to_tile
ApplyToTile(flip, tile) == [tile EXCEPT !.pixels = ApplyToPixels(flip, tile.pixels)]

BlankPixels == [y \in 1..TileDim |-> [x \in 1..TileDim |-> 0]]

\* Tile::default()
DefaultTile ==
    [priority |-> FALSE, collision |-> 0, h_flippable |-> FALSE,
     v_flippable |-> FALSE, pixels |-> BlankPixels]

\* the palette of ensure_palettes_non_empty
DefaultPalette ==
    [modified |-> TRUE, name |-> [group |-> "Default", i |-> 0, j |-> 0], id |-> 0,
     color0 |-> <<0, 0, 0>>,
     tiles |-> [k \in 1..16 |->
                   [DefaultTile EXCEPT !.h_flippable = TRUE, !.v_flippable = TRUE]]]

\* Screen { position, palettes: [[0; 32]; 32], tiles: [[0; 32]; 32], flips: .. }
NewScreen(x, y) ==
    [position |-> <<x, y>>,
     palettes |-> [sy \in 1..ScreenDim |-> [sx \in 1..ScreenDim |-> 0]],
     tiles |-> [sy \in 1..ScreenDim |-> [sx \in 1..ScreenDim |-> 0]],
     flips |-> [sy \in 1..ScreenDim |-> [sx \in 1..ScreenDim |-> "None"]]]

\* the screens of an area of w x h screens, in row-major order
NewScreens(w, h) == [k \in 1..(w * h) |-> NewScreen((k - 1) % w, (k - 1) \div w)]

\* Area::id
AreaId(area) == [area |-> area.name, theme |-> area.theme]

ExampleName == [n |-> -1, world |-> "Example"]

\* the area of ensure_areas_non_empty
ExampleArea ==
    [modified |-> TRUE, name |-> ExampleName, theme |-> "Base",
     bg_color |-> <<0, 0, 0>>, size |-> <<2, 2>>, screens |-> NewScreens(2, 2)]

\* Area::get_screen_coords returns Err for a cell that is out of range
OutOfRange(area, x, y) == x >= area.size[1] * ScreenDim \/ y >= area.size[2] * ScreenDim

\* Area::get_screen_coords of a cell in range: (screen_i, sx, sy)
GetScreenCoords(area, x, y) ==
    [i |-> (y \div ScreenDim) * area.size[1] + (x \div ScreenDim),
     sx |-> x % ScreenDim, sy |-> y % ScreenDim]

\* Area::set_tile, set_palette and set_flip of one cell
SetCell(area, x, y, tile_idx, palette_id, flip) ==
    LET c == GetScreenCoords(area, x, y) IN
    [area EXCEPT !.screens[c.i + 1].tiles[c.sy + 1][c.sx + 1] = tile_idx,
                 !.screens[c.i + 1].palettes[c.sy + 1][c.sx + 1] = palette_id,
                 !.screens[c.i + 1].flips[c.sy + 1][c.sx + 1] = flip]

\* Area::get_palette, get_tile and get_flip of one cell
GetCell(area, x, y) ==
    LET c == GetScreenCoords(area, x, y) IN
    [palette |-> area.screens[c.i + 1].palettes[c.sy + 1][c.sx + 1],
     tile |-> area.screens[c.i + 1].tiles[c.sy + 1][c.sx + 1],
     flip |-> area.screens[c.i + 1].flips[c.sy + 1][c.sx + 1]]

\* the EditorState literal of get_initial_state: nothing loaded
EmptyState ==
    [project_dir |-> FALSE, palettes |-> <<>>, palettes_id_idx_map |-> <<>>,
     palette_idx |-> 0, theme_names |-> <<>>, area_names |-> <<>>, areas |-> <<>>,
     main_area_id |-> [area |-> ExampleName, theme |-> "Base"],
     side_area_id |-> [area |-> ExampleName, theme |-> "Base"]]

\* get_initial_state on a new project directory: load_project finds no file,
\* so the default palette and the example area are made (not saved yet).
InitialState ==
    [EmptyState EXCEPT !.project_dir = TRUE,
                       !.palettes = <<DefaultPalette>>,
                       !.palettes_id_idx_map = (0 :> 0),
                       !.theme_names = <<"Base">>,
                       !.area_names = <<ExampleName>>,
                       !.areas = (AreaId(ExampleArea) :> ExampleArea)]

NoFiles == [palettes |-> <<>>, areas |-> <<>>]

EIdle ==
    /\ state = EmptyState
    /\ files = NoFiles

EInit ==
    /\ state = InitialState
    /\ files = NoFiles

-----------------------------------------------------------------------------
(* load_areas: the tile lookup of one cell (import.rs 859-901)               *)

MaxCalls == 2

\* graphics tiles of the bounded inputs: blank, symmetric under one flip
\* (a column, a row, the diagonal) and symmetric under none (a corner)
LeftColumn == [y \in 1..TileDim |-> [x \in 1..TileDim |-> IF x = 1 THEN 1 ELSE 0]]

TopRow == [y \in 1..TileDim |-> [x \in 1..TileDim |-> IF y = 1 THEN 2 ELSE 0]]

Corner == [y \in 1..TileDim |-> [x \in 1..TileDim |-> IF x = 1 /\ y = 1 THEN 3 ELSE 0]]

Diagonal == [y \in 1..TileDim |-> [x \in 1..TileDim |-> IF x = y THEN 7 ELSE 0]]

SamplePixels == <<BlankPixels, LeftColumn, TopRow, Corner, Diagonal>>

\* the collision code of tile_types for the character of each sample tile
SampleCollisions == <<0, 1, 0, 2, 0>>

\* Tile { priority, h_flippable: false, v_flippable: false, collision, pixels }
MakeTile(priority, collision, pixels) ==
    [priority |-> priority, collision |-> collision, h_flippable |-> FALSE,
     v_flippable |-> FALSE, pixels |-> pixels]

\* mutant: only the unflipped key is inserted
InsertFlipKeysNoneOnly(lookup, tile, idx) ==
    (ApplyToTile("None", tile) :> [idx |-> idx, flip |-> "None"]) @@ lookup

\* mutant: the flip of a key is not recorded with it
InsertFlipKeysFlipless(lookup, tile, idx) ==
    [t \in {ApplyToTile(flip, tile) : flip \in Flips} |-> [idx |-> idx, flip |-> "None"]] @@ lookup

\* for flip in [None, Horizontal, Vertical, Both] { lookup.insert(flip.apply_to_tile(tile), (idx, flip)) }
\* HashMap::insert replaces the value of a key that is present.
InsertFlipKeys(lookup, tile, idx) ==
    LET ins(lk, flip) == (ApplyToTile(flip, tile) :> [idx |-> idx, flip |-> flip]) @@ lk
    IN  ins(ins(ins(ins(lookup, "None"), "Horizontal"), "Vertical"), "Both")

\* the four tables of load_areas, as one record
Canon ==
    [tile_lookup |-> tile_lookup, used_tiles |-> used_tiles,
     h_flippable |-> h_flippable, v_flippable |-> v_flippable]

\* vec![..; self.state.palettes.len()]
NewCanon(n) ==
    [tile_lookup |-> [p \in 1..n |-> <<>>], used_tiles |-> [p \in 1..n |-> <<>>],
     h_flippable |-> [p \in 1..n |-> <<>>], v_flippable |-> [p \in 1..n |-> <<>>]]

\* match tile_lookup[palette_idx].get(&tile) { .. }; match flip { .. }:
\* the tables afterwards and the (tile_idx, flip) of the cell
Canonicalize(c, palette_i, tile) ==
    LET p == palette_i + 1
        hit == tile \in DOMAIN c.tile_lookup[p]
        idx == Len(c.used_tiles[p])
        found == IF hit THEN c.tile_lookup[p][tile] ELSE [idx |-> idx, flip |-> "None"]
        c1 == IF hit THEN c
              ELSE [c EXCEPT !.used_tiles[p] = Append(@, tile),
                             !.h_flippable[p] = Append(@, FALSE),
                             !.v_flippable[p] = Append(@, FALSE),
                             !.tile_lookup[p] = InsertFlipKeys(@, tile, idx)]
        t == found.idx + 1
        c2 == CASE found.flip = "None" -> c1
                [] found.flip = "Horizontal" -> [c1 EXCEPT !.h_flippable[p][t] = TRUE]
                [] found.flip = "Vertical" -> [c1 EXCEPT !.v_flippable[p][t] = TRUE]
                [] found.flip = "Both" -> [c1 EXCEPT !.h_flippable[p][t] = TRUE,
                                                      !.v_flippable[p][t] = TRUE]
    IN  [c |-> c2, tile_idx |-> found.idx, flip |-> found.flip]

NoCell == [palette_idx |-> 0, tile |-> DefaultTile, tile_idx |-> 0, flip |-> "None"]

\* one run of the loop body on a Tile8 reference (its flip, priority), the
\* graphics tile it names and the collision code of its character
CanonicalizeCell ==
    /\ calls < MaxCalls
    /\ \E palette_i \in 0..(Len(state.palettes) - 1), flip \in Flips, k \in DOMAIN SamplePixels,
          priority \in BOOLEAN :
          LET tile == MakeTile(priority, SampleCollisions[k],
                               ApplyToPixels(flip, SamplePixels[k]))
              r == Canonicalize(Canon, palette_i, tile)
          IN  /\ tile_lookup' = r.c.tile_lookup
              /\ used_tiles' = r.c.used_tiles
              /\ h_flippable' = r.c.h_flippable
              /\ v_flippable' = r.c.v_flippable
              /\ cell' = [palette_idx |-> palette_i, tile |-> tile,
                          tile_idx |-> r.tile_idx, flip |-> r.flip]
              /\ calls' = calls + 1
    /\ UNCHANGED <<uvars, dvars, avars, evars, ivars>>

\* load_areas is not running
CIdle ==
    /\ tile_lookup = <<>>
    /\ used_tiles = <<>>
    /\ h_flippable = <<>>
    /\ v_flippable = <<>>
    /\ cell = NoCell
    /\ calls = 0

\* the tables at the start of load_areas
CInit ==
    /\ tile_lookup = NewCanon(Len(state.palettes)).tile_lookup
    /\ used_tiles = NewCanon(Len(state.palettes)).used_tiles
    /\ h_flippable = NewCanon(Len(state.palettes)).h_flippable
    /\ v_flippable = NewCanon(Len(state.palettes)).v_flippable
    /\ cell = NoCell
    /\ calls = 0

CNext == CanonicalizeCell

\* no import is running
IIdle ==
    /\ image = <<>>
    /\ importer = <<>>
    /\ pc = "idle"
    /\ import_result = "idle"
    /\ before = <<>>
    /\ parent = 0

-----------------------------------------------------------------------------
(* The ROM files of the bounded imports, as the tables the stages read      *)

Tiles16Cnt == 6

Tiles32Cnt == 4

MapCnt == 160

SheetCnt == 113

SheetTiles == 64

\* the bytes of one tile of a sheet: two bit planes, interleaved row by row,
\* and then the third (24 for the 8 rows of a tile)
TileBytes == 3 * TileDim

\* the length of a decompressed sheet (0x600)
SheetLen == SheetTiles * TileBytes

\* a tile-index plane holds one byte per position of the 16 x 16 grid (256)
PlaneLen == GridDim * GridDim

\* the 0-based position of a flip in the two bits of a tilemap word
FlipCode(flip) == CHOOSE k \in 0..3 : FlipOrder[k + 1] = flip

\* the tilemap word that from_vram_tilemap_word decodes to these fields
TilemapWord(gfx_char, pal_idx, priority, flip_code) ==
    gfx_char + 1024 * pal_idx + 8192 * (IF priority THEN 1 ELSE 0) + 16384 * flip_code

\* tiles16_cnt and tiles32_cnt of the format (jp 3742 and 8828, us 3742 and
\* 8864, ZScream 4096 and 17728), scaled
FormatTiles16Cnt(format) == IF format = "zs" THEN Tiles16Cnt + 2 ELSE Tiles16Cnt

FormatTiles32Cnt(format) ==
    CASE format = "jp" -> Tiles32Cnt
      [] format = "us" -> Tiles32Cnt + 4
      [] format = "zs" -> 2 * (Tiles32Cnt + 4)
      [] OTHER -> 0

\* the signature values Constants::auto compares: the u24 at $008865, the
\* u16 at $00E7D2 and the u16 at $00E792 (a ZScream ROM is a patched US ROM)
Signature(format) ==
    [zs |-> IF format = "zs" THEN 12419072 ELSE 0,
     jp |-> IF format = "jp" THEN 51845 ELSE 0,
     us |-> IF format \in {"us", "zs"} THEN 51845 ELSE 0]

\* the four Tile8 words of 16x16 tile e: the characters run through the
\* eight sheets of a region, the palette selectors through 0..7, with both
\* priorities and all four flips
BaseTile16(e) ==
    [q \in 1..4 |->
        TilemapWord((64 * ((e + q - 1) % 8)) + (((5 * e) + (7 * (q - 1))) % 64),
                    (e + 3 * (q - 1)) % 8, e % 2 = 1, ((e \div 2) + q - 1) % 4)]

\* the 16x16 tile index of quadrant q of 32x32 tile n
BaseTile32(n, q, cnt16) == (n + q - 1) % cnt16

\* the byte at offset o of a quadrant table: four low bytes, then two bytes
\* holding the four high nibbles, for each group of four 32x32 tiles
Tiles32Byte(o, q, cnt16) ==
    LET g == o \div 6
        r == o % 6
        idx(k) == BaseTile32(4 * g + k, q, cnt16)
    IN  CASE r < 4 -> idx(r) % 256
          [] r = 4 -> (((idx(0) \div 256) % 16) * 16) + ((idx(1) \div 256) % 16)
          [] r = 5 -> (((idx(2) \div 256) % 16) * 16) + ((idx(3) \div 256) % 16)

\* the length of a quadrant table: whole groups of six bytes
Tiles32TableLen(cnt32) == 6 * ((((cnt32 * 6) \div 4) + 5) \div 6)

\* the decompressed tile-index planes of slot i: the indexes run through
\* 0..cnt32, so that one of them is out of bounds as in the US ROM
BasePlanes(i, cnt32) ==
    [high |-> [status |-> "ok", data |-> [k \in 1..PlaneLen |-> 0]],
     low |-> [status |-> "ok", data |-> [k \in 1..PlaneLen |-> (i + k - 1) % (cnt32 + 1)]]]

\* the rows of the palette set table: aux1, aux2, animated and a byte not
\* read; row 2 has the aux2 of 0xFF that takes the fallback, row 3 an aux1
\* and an animated out of range
PalSetRows == <<<<1, 2, 3, 0>>, <<5, 7, 0, 0>>, <<4, 255, 5, 0>>, <<30, 6, 20, 0>>>>

BaseRom(format) ==
    [signature |-> Signature(format),
     flag_gfx |-> 0,
     flag_main_pal |-> 0,
     flag_bg |-> 0,
     end |-> "none",
     palettes_readable |-> 106,
     tile_types |-> [c \in 0..511 |-> SampleCollisions[(c % 5) + 1]],
     sheets |-> [i \in 0..(SheetCnt - 1) |-> [status |-> "ok", len |-> SheetLen, first |-> i * SheetTiles]],
     tiles16 |-> [e \in 0..(FormatTiles16Cnt(format) - 1) |-> BaseTile16(e)],
     tiles32 |-> [q \in 1..4 |->
                    [o \in 0..(Tiles32TableLen(FormatTiles32Cnt(format)) - 1) |->
                        Tiles32Byte(o, q, FormatTiles16Cnt(format))]],
     planes |-> [i \in 0..(MapCnt - 1) |-> BasePlanes(i, FormatTiles32Cnt(format))],
     map_aux_pal_set |-> [p \in 0..(MapCnt - 1) |-> p % 4],
     special_map_pal_set |-> [k \in 0..31 |-> (k + 1) % 4],
     pal_set |-> [o \in 0..1023 |-> PalSetRows[((o \div 4) % 4) + 1][(o % 4) + 1]],
     custom_main_pal |-> [p \in 0..(MapCnt - 1) |-> p % 6],
     global_gfx_set |-> [g \in {32, 33, 36} |-> [k \in 1..8 |-> (g + 8 * k) % SheetCnt]],
     map_gfx_set |-> [p \in 0..127 |-> p % 8],
     special_gfx_set |-> [k \in 0..31 |-> k % 8],
     local_gfx_set |-> [l \in 0..255 |-> <<0, 16 + (l % 16), 0, 100 + (l % 8)>>],
     custom_gfx |-> [p \in 0..(MapCnt - 1) |-> <<255, 255, 255, 20 + (p % 8), 255, 255, 255, 255>>],
     custom_bg |-> [p \in 0..(MapCnt - 1) |-> (p % 32) + (32 * ((p + 1) % 32)) + (1024 * 3)]]

\* a ZScream ROM with its three custom tables switched on
CustomRom ==
    [BaseRom("zs") EXCEPT !.flag_gfx = 1, !.flag_main_pal = 1, !.flag_bg = 1]

\* files that end inside the table of a stage
ShortRoms ==
    {[BaseRom("jp") EXCEPT !.end = s] :
        s \in {"auto", "load_tile_types", "load_graphics", "load_16x16_tiles",
               "load_32x32_tiles", "load_map_tiles", "load_map_palettes", "load_map_gfx"}}
    \cup {[BaseRom("jp") EXCEPT !.palettes_readable = n] : n \in {0, 32}}
    \cup {[CustomRom EXCEPT !.end = "load_areas"]}

\* files with one table entry that a stage rejects or that stops a later stage
BadRoms ==
    {[BaseRom("jp") EXCEPT !.sheets[0].len = SheetLen - 1],
     [BaseRom("us") EXCEPT !.sheets[SheetCnt - 1].len = SheetLen + 1],
     [BaseRom("jp") EXCEPT !.sheets[SheetCnt - 1].status = "err"],
     [BaseRom("us") EXCEPT !.sheets[5].status = "panic"],
     [BaseRom("jp") EXCEPT !.tiles32[2][4] = 16],
     [BaseRom("jp") EXCEPT !.planes[17].high.data = <<>>],
     [BaseRom("us") EXCEPT !.planes[MapCnt - 1].low.data = Append(@, 0)],
     [BaseRom("jp") EXCEPT !.planes[3].low.status = "err"],
     [BaseRom("jp") EXCEPT !.map_aux_pal_set = [p \in 0..(MapCnt - 1) |-> 2]],
     [BaseRom("jp") EXCEPT !.tiles16[2][1] = TilemapWord(600, 2, FALSE, 0)],
     [CustomRom EXCEPT !.custom_main_pal[2] = 6],
     [CustomRom EXCEPT !.custom_gfx[5][4] = SheetCnt],
     [CustomRom EXCEPT !.custom_gfx[1][8] = 255]}

RomSamples ==
    {BaseRom(f) : f \in {"jp", "us", "zs", "none"}} \cup {CustomRom}
        \cup ShortRoms \cup BadRoms

-----------------------------------------------------------------------------
(* Importer::new and the table stages of import_all                         *)

JpConstants ==
    [addrs |-> "jp", tiles16_cnt |-> FormatTiles16Cnt("jp"),
     tiles32_cnt |-> FormatTiles32Cnt("jp"), map_cnt |-> MapCnt,
     custom_map_main_pal_set_addr |-> FALSE, custom_gfx_set_addr |-> FALSE,
     custom_bg_colors_addr |-> FALSE]

UsConstants ==
    [JpConstants EXCEPT !.addrs = "us", !.tiles32_cnt = FormatTiles32Cnt("us")]

\* Constants::auto returns Err: a signature is beyond the end of the file, or
\* none of the three matches
AutoFails(r) ==
    \/ r.end = "auto"
    \/ r.signature.zs # 12419072 /\ r.signature.jp # 51845 /\ r.signature.us # 51845

\* mutant: the US signature is tried before the JP one
AutoUsFirst(r) ==
    IF r.signature.zs = 12419072
         THEN [UsConstants EXCEPT !.tiles16_cnt = FormatTiles16Cnt("zs"),
                                  !.tiles32_cnt = FormatTiles32Cnt("zs"),
                                  !.custom_gfx_set_addr = (r.flag_gfx # 0),
                                  !.custom_map_main_pal_set_addr = (r.flag_main_pal # 0),
                                  !.custom_bg_colors_addr = (r.flag_bg # 0)]
    ELSE IF r.signature.us = 51845 THEN UsConstants
    ELSE JpConstants

\* Constants::auto: the ZScream signature is tried first, then JP, then US
Auto(r) ==
    IF r.signature.zs = 12419072
         THEN [UsConstants EXCEPT !.tiles16_cnt = FormatTiles16Cnt("zs"),
                                  !.tiles32_cnt = FormatTiles32Cnt("zs"),
                                  !.custom_gfx_set_addr = (r.flag_gfx # 0),
                                  !.custom_map_main_pal_set_addr = (r.flag_main_pal # 0),
                                  !.custom_bg_colors_addr = (r.flag_bg # 0)]
    ELSE IF r.signature.jp = 51845 THEN JpConstants
    ELSE UsConstants

\* Importer { state, constants, rom, hud_palette_ids: vec![], .. }
NewImporter(c) ==
    [constants |-> c, hud_palette_ids |-> <<>>, main_palette_ids |-> <<>>,
     aux_palette_ids |-> <<>>, animated_palette_ids |-> <<>>, tiles8 |-> <<>>,
     tiles16 |-> <<>>, tiles32 |-> <<>>, map_tiles |-> <<>>, map_parents |-> <<>>,
     map_palettes |-> <<>>, map_gfx |-> <<>>, tile_types |-> <<>>,
     pal_bg_color |-> <<>>]

\* the stage of import_all that is about to run
Stage(name) == import_result = "run" /\ pc = name

\* the stage returns Err (kind "err") or panics: import_all stops there
Failed(kind) == import_result' = kind /\ UNCHANGED pc

Goto(next) == pc' = next /\ UNCHANGED import_result

\* what no table stage touches
TablesFrame == UNCHANGED <<uvars, dvars, avars, cvars, image, before, parent>>

New ==
    /\ Stage("new")
    /\ IF AutoFails(image)
       THEN Failed("err") /\ UNCHANGED importer
       ELSE importer' = NewImporter(Auto(image)) /\ Goto("load_tile_types")
    /\ UNCHANGED evars
    /\ TablesFrame

LoadTileTypes ==
    /\ Stage("load_tile_types")
    /\ IF image.end = "load_tile_types"
       THEN Failed("err") /\ UNCHANGED importer
       ELSE /\ importer' = [importer EXCEPT
                               !.tile_types = [c \in 1..512 |-> image.tile_types[c - 1]]]
            /\ Goto("import_all_palettes")
    /\ UNCHANGED evars
    /\ TablesFrame

starting_palette_id == 100

\* (group_name, cnt_pal, cnt_rows, size) of import_all_palettes
PaletteGroups ==
    <<[name |-> "HUD", cnt_pal |-> 1, cnt_rows |-> 2, size |-> 15],
      [name |-> "Main", cnt_pal |-> 6, cnt_rows |-> 5, size |-> 7],
      [name |-> "Aux", cnt_pal |-> 20, cnt_rows |-> 3, size |-> 7],
      [name |-> "Animated", cnt_pal |-> 14, cnt_rows |-> 1, size |-> 7]>>

\* the names "<group> <i>-<j>" of one group, in the order of the two loops
GroupNames(g) ==
    [k \in 1..(g.cnt_pal * g.cnt_rows) |->
        [group |-> g.name, i |-> (k - 1) \div g.cnt_rows, j |-> (k - 1) % g.cnt_rows]]

PaletteNames ==
    GroupNames(PaletteGroups[1]) \o GroupNames(PaletteGroups[2])
        \o GroupNames(PaletteGroups[3]) \o GroupNames(PaletteGroups[4])

\* the ids given to the palettes before group n
RECURSIVE GroupOffset(_)
GroupOffset(n) ==
    IF n = 1 THEN 0
    ELSE GroupOffset(n - 1) + PaletteGroups[n - 1].cnt_pal * PaletteGroups[n - 1].cnt_rows

\* the palette_ids rows pushed for group n (id += 1 for each palette)
GroupIds(n) ==
    [i \in 1..PaletteGroups[n].cnt_pal |->
        [j \in 1..PaletteGroups[n].cnt_rows |->
            starting_palette_id + GroupOffset(n) + (i - 1) * PaletteGroups[n].cnt_rows + (j - 1)]]

\* import_palette: color 0 stays [0, 0, 0], the tiles are 16 default tiles
ImportPalette(name, id) ==
    [modified |-> TRUE, name |-> name, id |-> id, color0 |-> <<0, 0, 0>>,
     tiles |-> [k \in 1..16 |-> DefaultTile]]

\* palettes.sort_by(|x, y| x.id.cmp(&y.id)): a stable sort, so an element
\* goes after the smaller ids and after the equal ids that stood before it
SortById(s) ==
    LET place(k) == Cardinality({l \in 1..Len(s) : s[l].id < s[k].id})
                        + Cardinality({l \in 1..k : s[l].id = s[k].id})
    IN  [r \in 1..Len(s) |-> s[CHOOSE k \in 1..Len(s) : place(k) = r]]

\* state.palettes[state.palette_idx] panics in update_palette_order
PaletteIdxOutOfRange(st) == st.palette_idx >= Len(st.palettes)

\* update_palette_order (update.rs)
UpdatePaletteOrder(st) ==
    LET id == st.palettes[st.palette_idx + 1].id
        sorted == SortById(st.palettes)
        at(d) == {k \in 1..Len(sorted) : sorted[k].id = d}
        last(d) == CHOOSE k \in at(d) : \A l \in at(d) : l <= k
    IN  [st EXCEPT !.palettes = sorted,
                   !.palettes_id_idx_map =
                       [d \in {sorted[k].id : k \in 1..Len(sorted)} |-> last(d) - 1],
                   !.palette_idx = last(id) - 1]

\* the palette list is cleared first; a color read beyond the end of the
\* file returns with the palettes pushed so far
ImportAllPalettes ==
    /\ Stage("import_all_palettes")
    /\ LET n == image.palettes_readable
           pushed == [k \in 1..n |-> ImportPalette(PaletteNames[k], starting_palette_id + k - 1)]
           cleared == [state EXCEPT !.palettes = pushed]
       IN  IF n < Len(PaletteNames)
           THEN /\ state' = cleared
                /\ Failed("err")
                /\ UNCHANGED importer
           ELSE IF PaletteIdxOutOfRange(cleared)
           THEN /\ state' = cleared
                /\ Failed("panic")
                /\ UNCHANGED importer
           ELSE /\ state' = UpdatePaletteOrder(cleared)
                /\ importer' = [importer EXCEPT
                       !.hud_palette_ids = GroupIds(1),
                       !.main_palette_ids = GroupIds(2),
                       !.aux_palette_ids = GroupIds(3),
                       !.animated_palette_ids =
                           [i \in 1..PaletteGroups[4].cnt_pal |-> GroupIds(4)[i][1]]]
                /\ Goto("load_graphics")
    /\ UNCHANGED files
    /\ TablesFrame

\* the least element of a set of numbers
Least(S) == CHOOSE m \in S : \A k \in S : m <= k

\* mutant: the length of a decompressed sheet is not checked
SheetOutcomeAnyLength(i) == image.sheets[i].status

\* what decompressing sheet i and checking its length comes to
SheetOutcome(i) ==
    IF image.sheets[i].status # "ok" THEN image.sheets[i].status
    ELSE IF image.sheets[i].len # SheetLen THEN "err"
    ELSE "ok"

\* the row of bits of one plane of a row of pixels, the first pixel in the
\* highest bit
RECURSIVE PlaneByte(_, _, _)
PlaneByte(pixels_row, plane, x) ==
    IF x > TileDim THEN 0
    ELSE (((pixels_row[x] \div (2 ^ plane)) % 2) * (2 ^ (TileDim - x)))
             + PlaneByte(pixels_row, plane, x + 1)

\* the byte at offset o of a decompressed sheet: its tiles are the sample
\* tiles in turn, in the planar layout that load_graphics reads
SheetByte(sheet, o) ==
    LET j == o \div TileBytes
        r == o % TileBytes
        pixels == SamplePixels[((sheet.first + j) % Len(SamplePixels)) + 1]
    IN  IF r < 2 * TileDim THEN PlaneByte(pixels[(r \div 2) + 1], r % 2, 1)
        ELSE PlaneByte(pixels[(r - (2 * TileDim)) + 1], 2, 1)

\* mutant: the third plane is read row by row from the bytes after the second
SheetTileThirdPlaneInterleaved(sheet, j) ==
    [y \in 1..TileDim |-> [x \in 1..TileDim |->
        LET bit(o) == (SheetByte(sheet, o) \div (2 ^ (TileDim - x))) % 2
            c0 == bit((j * TileBytes) + ((y - 1) * 2))
            c1 == bit((j * TileBytes) + ((y - 1) * 2) + 1)
            c2 == bit((j * TileBytes) + ((y - 1) * 2) + 2)
        IN  c0 + (2 * c1) + (4 * c2)]]

\* tile j of a sheet: c = c0 | (c1 << 1) | (c2 << 2) of the bits at 7 - x
SheetTile(sheet, j) ==
    [y \in 1..TileDim |-> [x \in 1..TileDim |->
        LET bit(o) == (SheetByte(sheet, o) \div (2 ^ (TileDim - x))) % 2
            c0 == bit((j * TileBytes) + ((y - 1) * 2))
            c1 == bit((j * TileBytes) + ((y - 1) * 2) + 1)
            c2 == bit((j * TileBytes) + (y - 1) + (2 * TileDim))
        IN  c0 + (2 * c1) + (4 * c2)]]

LoadGraphics ==
    /\ Stage("load_graphics")
    /\ LET bad == {i \in 0..(SheetCnt - 1) : SheetOutcome(i) # "ok"} IN
       IF image.end = "load_graphics" THEN Failed("err") /\ UNCHANGED importer
       ELSE IF bad # {} THEN Failed(SheetOutcome(Least(bad))) /\ UNCHANGED importer
       ELSE /\ importer' = [importer EXCEPT !.tiles8 =
                   [t \in 1..(SheetCnt * SheetTiles) |->
                       SheetTile(image.sheets[(t - 1) \div SheetTiles], (t - 1) % SheetTiles)]]
            /\ Goto("load_16x16_tiles")
    /\ UNCHANGED evars
    /\ TablesFrame

\* Tile8::from_vram_tilemap_word
FromVramTilemapWord(w) ==
    [gfx_char |-> BitAnd(w, 1023),
     pal_idx |-> BitAnd(Shr(w, 10), 7),
     priority |-> BitAnd(Shr(w, 13), 1) = 1,
     flip |-> FlipOrder[Shr(w, 14) + 1]]

Load16x16Tiles ==
    /\ Stage("load_16x16_tiles")
    /\ IF image.end = "load_16x16_tiles" THEN Failed("err") /\ UNCHANGED importer
       ELSE /\ importer' = [importer EXCEPT !.tiles16 =
                   [e \in 1..importer.constants.tiles16_cnt |->
                       [q \in 1..4 |-> FromVramTilemapWord(image.tiles16[e - 1][q])]]]
            /\ Goto("load_32x32_tiles")
    /\ UNCHANGED evars
    /\ TablesFrame

\* mutant: the two nibbles of a high byte change places
Tile16IdxSwapped(t, o, i) ==
    CASE i = 0 -> BitOr(t[o], Shl(BitAnd(t[o + 4], 15), 8))
      [] i = 1 -> BitOr(t[o + 1], Shl(BitAnd(t[o + 4], 240), 4))
      [] i = 2 -> BitOr(t[o + 2], Shl(BitAnd(t[o + 5], 15), 8))
      [] i = 3 -> BitOr(t[o + 3], Shl(BitAnd(t[o + 5], 240), 4))

\* the 12-bit index of tile i of the group at offset o, in quadrant table t
Tile16Idx(t, o, i) ==
    CASE i = 0 -> BitOr(t[o], Shl(BitAnd(t[o + 4], 240), 4))
      [] i = 1 -> BitOr(t[o + 1], Shl(BitAnd(t[o + 4], 15), 8))
      [] i = 2 -> BitOr(t[o + 2], Shl(BitAnd(t[o + 5], 240), 4))
      [] i = 3 -> BitOr(t[o + 3], Shl(BitAnd(t[o + 5], 15), 8))

Load32x32Tiles ==
    /\ Stage("load_32x32_tiles")
    /\ LET tiles32_size == (importer.constants.tiles32_cnt * 6) \div 4
           groups == (tiles32_size + 5) \div 6
           all == [n \in 1..(4 * groups) |->
                      [q \in 1..4 |-> Tile16Idx(image.tiles32[q], 6 * ((n - 1) \div 4), (n - 1) % 4)]]
       IN  IF image.end = "load_32x32_tiles" THEN Failed("err") /\ UNCHANGED importer
           ELSE IF \E n \in 1..(4 * groups), q \in 1..4 : all[n][q] >= Len(importer.tiles16)
           THEN Failed("err") /\ UNCHANGED importer
           ELSE importer' = [importer EXCEPT !.tiles32 = all] /\ Goto("load_map_tiles")
    /\ UNCHANGED evars
    /\ TablesFrame

\* what decompressing the two planes of slot i and checking their lengths comes to
PlanesOutcome(i) ==
    LET p == image.planes[i] IN
    IF p.high.status # "ok" THEN p.high.status
    ELSE IF p.low.status # "ok" THEN p.low.status
    ELSE IF Len(p.high.data) # PlaneLen \/ Len(p.low.data) # PlaneLen THEN "err"
    ELSE "ok"

\* mutant: an index that is out of bounds is kept
MapBlockUnclamped(i) ==
    [y \in 1..GridDim |-> [x \in 1..GridDim |->
        LET j == (y - 1) * GridDim + x
        IN  BitOr(Shl(image.planes[i].high.data[j], 8), image.planes[i].low.data[j])]]

\* the grid of slot i: an index that is out of bounds becomes 0
MapBlock(i) ==
    [y \in 1..GridDim |-> [x \in 1..GridDim |->
        LET j == (y - 1) * GridDim + x
            tile32_idx == BitOr(Shl(image.planes[i].high.data[j], 8), image.planes[i].low.data[j])
        IN  IF tile32_idx >= importer.constants.tiles32_cnt THEN 0 ELSE tile32_idx]]

LoadMapTiles ==
    /\ Stage("load_map_tiles")
    /\ LET bad == {i \in 0..(importer.constants.map_cnt - 1) : PlanesOutcome(i) # "ok"} IN
       IF image.end = "load_map_tiles" THEN Failed("err") /\ UNCHANGED importer
       ELSE IF bad # {} THEN Failed(PlanesOutcome(Least(bad))) /\ UNCHANGED importer
       ELSE /\ importer' = [importer EXCEPT !.map_tiles =
                   [i \in 1..importer.constants.map_cnt |-> MapBlock(i - 1)]]
            /\ Goto("load_map_parents")
    /\ UNCHANGED evars
    /\ TablesFrame

\* mutant: the last large area starts one slot to the left, inside its neighbour
LargeAreasOverlapping == <<0, 3, 5, 24, 27, 30, 48, 49>>

\* the parents of the large areas: slots i+1, i+8, i+9 in both worlds
LargeAreas == <<0, 3, 5, 24, 27, 30, 48, 53>>

\* the other assignments of load_map_parents, in their order
OtherParents ==
    <<<<130, 129>>, <<137, 129>>, <<138, 129>>, <<148, 128>>, <<149, 3>>, <<150, 91>>,
      <<151, 0>>, <<156, 67>>, <<157, 0>>, <<158, 0>>, <<159, 44>>>>

\* parents[i + j + 1] = parents[i + j + 8] = parents[i + j + 9] = i + j
RECURSIVE SetLargeAreas(_, _)
SetLargeAreas(parents, n) ==
    IF n > Len(LargeAreas) THEN parents
    ELSE LET i == LargeAreas[n] IN
         SetLargeAreas([parents EXCEPT ![i + 2] = i, ![i + 9] = i, ![i + 10] = i,
                                       ![i + 66] = i + 64, ![i + 73] = i + 64,
                                       ![i + 74] = i + 64], n + 1)

RECURSIVE SetOtherParents(_, _)
SetOtherParents(parents, n) ==
    IF n > Len(OtherParents) THEN parents
    ELSE SetOtherParents([parents EXCEPT ![OtherParents[n][1] + 1] = OtherParents[n][2]], n + 1)

LoadMapParents ==
    /\ Stage("load_map_parents")
    /\ importer' = [importer EXCEPT !.map_parents =
           SetOtherParents(SetLargeAreas([i \in 1..importer.constants.map_cnt |-> i - 1], 1), 1)]
    /\ Goto("load_map_palettes")
    /\ UNCHANGED evars
    /\ TablesFrame

\* the main palette group of slot i when no custom table is used
MainByRange(i) ==
    CASE i \in {3, 5, 7} -> 2
      [] i \in 0..63 \ {3, 5, 7} -> 0
      [] i \in {67, 69, 71} -> 3
      [] i \in 64..127 \ {67, 69, 71} -> 1
      [] i = 136 -> 4
      [] i \in 128..159 \ {136} -> 0

\* mutant: the fallback reads the aux2 byte of the slot's own palette set again
FallbackAux2Own(pal_set, prev_pal_set) == image.pal_set[pal_set * 4 + 1]

\* rom.read_u8(pal_set_addr + prev_pal_set * 4 + 1)
FallbackAux2(pal_set, prev_pal_set) == image.pal_set[prev_pal_set * 4 + 1]

\* the pal_set and prev_pal_set bytes looked up for slot i
PalSetOf(i) ==
    LET p == importer.map_parents[i + 1] IN
    IF i = 136 THEN 0
    ELSE IF p >= 128 THEN image.special_map_pal_set[p - 128]
    ELSE image.map_aux_pal_set[p]

PrevPalSetOf(i) ==
    LET p == importer.map_parents[i + 1] IN
    IF p >= 1 THEN image.map_aux_pal_set[p - 1] ELSE 0

\* the MapPalettes pushed for slot i
MapPalettesOf(i) ==
    LET p == importer.map_parents[i + 1]
        pal_set == PalSetOf(i)
        aux1 == image.pal_set[pal_set * 4]
        aux2 == image.pal_set[pal_set * 4 + 1]
        animated == image.pal_set[pal_set * 4 + 2]
    IN  [main |-> IF importer.constants.custom_map_main_pal_set_addr
                  THEN image.custom_main_pal[p] ELSE MainByRange(i),
         aux1 |-> IF aux1 >= 20 THEN 0 ELSE aux1,
         aux2 |-> IF aux2 >= 20 THEN FallbackAux2(pal_set, PrevPalSetOf(i)) ELSE aux2,
         animated |-> IF animated >= 14 THEN 0 ELSE animated]

LoadMapPalettes ==
    /\ Stage("load_map_palettes")
    /\ IF image.end = "load_map_palettes" THEN Failed("err") /\ UNCHANGED importer
       ELSE /\ importer' = [importer EXCEPT !.map_palettes =
                   [i \in 1..importer.constants.map_cnt |-> MapPalettesOf(i - 1)]]
            /\ Goto("load_map_gfx")
    /\ UNCHANGED evars
    /\ TablesFrame

\* the eight sheet codes of slot i
MapGfxOf(i) ==
    LET p == importer.map_parents[i + 1]
        global_idx == IF p \in 64..127 THEN 33 ELSE IF p = 136 THEN 36 ELSE 32
        gfx == image.global_gfx_set[global_idx]
        local_idx == IF p = 136 THEN 81
                     ELSE IF p >= 128 THEN image.special_gfx_set[p - 128]
                     ELSE image.map_gfx_set[p]
    IN  IF importer.constants.custom_gfx_set_addr
        THEN [k \in 1..8 |-> IF image.custom_gfx[p][k] # 255
                             THEN image.custom_gfx[p][k] ELSE gfx[k]]
        ELSE [k \in 1..8 |-> IF k \in 4..7 /\ image.local_gfx_set[local_idx][k - 3] # 0
                             THEN image.local_gfx_set[local_idx][k - 3] ELSE gfx[k]]

LoadMapGfx ==
    /\ Stage("load_map_gfx")
    /\ IF image.end = "load_map_gfx" THEN Failed("err") /\ UNCHANGED importer
       ELSE /\ importer' = [importer EXCEPT !.map_gfx =
                   [i \in 1..importer.constants.map_cnt |-> MapGfxOf(i - 1)]]
            /\ Goto("load_areas")
    /\ UNCHANGED evars
    /\ TablesFrame

-----------------------------------------------------------------------------
(* load_areas: one area for each top-level region                           *)

LastParent == 129

tile32_offsets == <<<<0, 0>>, <<2, 0>>, <<0, 2>>, <<2, 2>>>>

tile16_offsets == <<<<0, 0>>, <<1, 0>>, <<0, 1>>, <<1, 1>>>>

\* the cells across one map slot: 16 positions of four cells (64)
SlotDim == 4 * GridDim

LoadAreasBegin ==
    /\ Stage("load_areas")
    /\ state' = [state EXCEPT !.theme_names = <<"Base">>, !.area_names = <<>>]
    /\ tile_lookup' = NewCanon(Len(state.palettes)).tile_lookup
    /\ used_tiles' = NewCanon(Len(state.palettes)).used_tiles
    /\ h_flippable' = NewCanon(Len(state.palettes)).h_flippable
    /\ v_flippable' = NewCanon(Len(state.palettes)).v_flippable
    /\ parent' = 0
    /\ Goto("load_areas_loop")
    /\ UNCHANGED <<uvars, dvars, avars, files, image, importer, before, cell, calls>>

\* if self.map_parents[parent] as usize != parent { continue; }
SkipChild ==
    /\ Stage("load_areas_loop")
    /\ parent <= LastParent
    /\ importer.map_parents[parent + 1] # parent
    /\ parent' = parent + 1
    /\ UNCHANGED <<uvars, dvars, avars, evars, cvars, image, importer, pc, import_result, before>>

\* mutant: a region is one slot whatever its children
RegionSizeSingle(p) == <<1, 1>>

\* the slots across and down of the region of parent slot p
RegionSize(p) ==
    IF p % 8 <= 6 /\ importer.map_parents[p + 2] = p THEN <<2, 2>> ELSE <<1, 1>>

\* mutant: the Area has as many screens as the region has slots
AreaSizeUndoubled(region) == <<region[1], region[2]>>

\* size: (size.0 * 2, size.1 * 2)
AreaSize(region) == <<region[1] * 2, region[2] * 2>>

\* a sheet code of 0xFF: (idx + 1) as u16 overflows the u8 and panics (a
\* debug build), or wraps to an empty range, and then gfx_idxs is too short
\* for the slice 0x1C0..0x1E0 and copy_from_slice panics
GfxIdxsPanics(p) == \E k \in 1..8 : importer.map_gfx[p + 1][k] = 255

\* the 512 entries of gfx_idxs with the animated override at 0x1C0..0x1E0
GfxIdxs(p) ==
    LET gfx == importer.map_gfx[p + 1]
        animated_gfx == IF p \in {3, 5, 7, 67, 69, 71} THEN 89 ELSE 91
    IN  [c \in 1..512 |->
            IF c - 1 \in 448..479 THEN animated_gfx * 64 + (c - 1 - 448)
            ELSE (gfx[((c - 1) \div 64) + 1] * 64) + ((c - 1) % 64)]

\* read_u16 returns Err: the custom table is beyond the end of the file
BgColorFails == importer.constants.custom_bg_colors_addr /\ image.end = "load_areas"

\* the background color of the region
BgColor(p) ==
    IF importer.constants.custom_bg_colors_addr
    THEN LET c == image.custom_bg[p] IN
         <<BitAnd(c, 31), BitAnd(Shr(c, 5), 31), BitAnd(Shr(c, 10), 31)>>
    ELSE IF p \in 64..127 THEN <<18, 17, 10>>
    ELSE IF p \in {128, 130, 131} THEN <<6, 14, 6>>
    ELSE <<9, 19, 9>>

\* format!("{:02X} Light World", parent) and so on
RegionName(p) ==
    [n |-> p, world |-> CASE p \div 64 = 0 -> "Light World"
                          [] p \div 64 = 1 -> "Dark World"
                          [] p \div 64 = 2 -> "Special World"]

\* mutant: selector 7 on a sheet outside the high set has no arm of its own
PaletteIdNoAnimated(pal_idx, pal_high, pal) ==
    LET row(ids, g, r) == IF g < Len(ids) THEN [status |-> "ok", id |-> ids[g + 1][r + 1]]
                          ELSE [status |-> "panic", id |-> 0]
    IN  CASE pal_idx \in {0, 1} -> row(importer.hud_palette_ids, 0, pal_idx)
          [] pal_idx \in 2..6 /\ ~pal_high -> row(importer.main_palette_ids, pal.main, pal_idx - 2)
          [] pal_idx \in 2..4 /\ pal_high -> row(importer.aux_palette_ids, pal.aux1, pal_idx - 2)
          [] pal_idx \in 5..7 /\ pal_high -> row(importer.aux_palette_ids, pal.aux2, pal_idx - 5)
          [] OTHER -> [status |-> "err", id |-> 0]

\* the palette id of a Tile8 selector: [status, id]
PaletteId(pal_idx, pal_high, pal) ==
    LET row(ids, g, r) == IF g < Len(ids) THEN [status |-> "ok", id |-> ids[g + 1][r + 1]]
                          ELSE [status |-> "panic", id |-> 0]
    IN  CASE pal_idx \in {0, 1} -> row(importer.hud_palette_ids, 0, pal_idx)
          [] pal_idx \in 2..6 /\ ~pal_high -> row(importer.main_palette_ids, pal.main, pal_idx - 2)
          [] pal_idx = 7 /\ ~pal_high ->
                IF pal.animated < Len(importer.animated_palette_ids)
                THEN [status |-> "ok", id |-> importer.animated_palette_ids[pal.animated + 1]]
                ELSE [status |-> "panic", id |-> 0]
          [] pal_idx \in 2..4 /\ pal_high -> row(importer.aux_palette_ids, pal.aux1, pal_idx - 2)
          [] pal_idx \in 5..7 /\ pal_high -> row(importer.aux_palette_ids, pal.aux2, pal_idx - 5)
          [] OTHER -> [status |-> "err", id |-> 0]

\* mutant: the entry takes the background color of the cell seen last
TrackBgColorLatest(bg, pal_id, bg_color) ==
    IF pal_id \in DOMAIN bg THEN [bg EXCEPT ![pal_id] = bg_color]
    ELSE (pal_id :> bg_color) @@ bg

\* pal_bg_color.entry(pal_id): black marks a palette seen with two colors
TrackBgColor(bg, pal_id, bg_color) ==
    IF pal_id \in DOMAIN bg
    THEN IF bg[pal_id] # bg_color THEN [bg EXCEPT ![pal_id] = <<0, 0, 0>>] ELSE bg
    ELSE (pal_id :> bg_color) @@ bg

\* the loop indexes of the n-th run of the loop body (my, mx, ty, tx, i, j
\* from the outermost loop to the innermost), in a region w slots across
LoopIndexes(n, w) ==
    [j |-> n % 4,
     i |-> (n \div 4) % 4,
     tx |-> (n \div 16) % GridDim,
     ty |-> (n \div (16 * GridDim)) % GridDim,
     mx |-> (n \div (16 * GridDim * GridDim)) % w,
     my |-> n \div (16 * GridDim * GridDim * w)]

\* mutant: every slot of the region is drawn at the parent's position
CellXNoSlot(l) == l.tx * 4 + tile32_offsets[l.i + 1][1] + tile16_offsets[l.j + 1][1]

\* x = mx * 64 + tx * 4 + tile32_offsets[i].0 + tile16_offsets[j].0
CellX(l) == l.mx * SlotDim + l.tx * 4 + tile32_offsets[l.i + 1][1] + tile16_offsets[l.j + 1][1]

CellY(l) == l.my * SlotDim + l.ty * 4 + tile32_offsets[l.i + 1][2] + tile16_offsets[l.j + 1][2]

\* the Tile8 reference of a run of the loop body in the region of slot p
SourceTile8(p, l) ==
    LET map_idx == p + l.my * 8 + l.mx
        t32_idx == importer.map_tiles[map_idx + 1][l.ty + 1][l.tx + 1]
        t16_idx == importer.tiles32[t32_idx + 1][l.i + 1]
    IN  importer.tiles16[t16_idx + 1][l.j + 1]

\* one run of the loop body; acc is [status, c, area, bg, cell, calls]
CellStep(acc, p, gfx_idxs, bg_color, l) ==
    LET t8 == SourceTile8(p, l)
        gfx_sheet == t8.gfx_char \div 64
        pal_high == gfx_sheet \in {0, 3, 4, 5}
        sel == PaletteId(t8.pal_idx, pal_high, importer.map_palettes[p + 1])
        tiles8_idx == gfx_idxs[t8.gfx_char + 1]
        palette_i == state.palettes_id_idx_map[sel.id]
        tile == MakeTile(t8.priority, importer.tile_types[t8.gfx_char + 1],
                         ApplyToPixels(t8.flip, importer.tiles8[tiles8_idx + 1]))
        r == Canonicalize(acc.c, palette_i, tile)
    IN  IF t8.gfx_char >= Len(gfx_idxs) THEN [acc EXCEPT !.status = "panic"]
        ELSE IF gfx_sheet >= 8 THEN [acc EXCEPT !.status = "err"]
        ELSE IF sel.status # "ok" THEN [acc EXCEPT !.status = sel.status]
        ELSE IF sel.id \notin DOMAIN state.palettes_id_idx_map
                \/ tiles8_idx >= Len(importer.tiles8)
                \/ OutOfRange(acc.area, CellX(l), CellY(l))
        THEN [acc EXCEPT !.status = "panic"]
        ELSE [status |-> "ok",
              c |-> r.c,
              area |-> SetCell(acc.area, CellX(l), CellY(l), r.tile_idx, sel.id, r.flip),
              bg |-> TrackBgColor(acc.bg, sel.id, bg_color),
              cell |-> [palette_idx |-> palette_i, tile |-> tile,
                        tile_idx |-> r.tile_idx, flip |-> r.flip],
              calls |-> acc.calls + 1]

\* the runs n, n + 1, .., total - 1 of the loop body in their order, up to the
\* first one that fails: the first half of them, then the second half
RECURSIVE BuildCells(_, _, _, _, _, _, _)
BuildCells(acc, p, w, gfx_idxs, bg_color, n, total) ==
    IF acc.status # "ok" THEN acc
    ELSE IF total - n = 1 THEN CellStep(acc, p, gfx_idxs, bg_color, LoopIndexes(n, w))
    ELSE LET half == BuildCells(acc, p, w, gfx_idxs, bg_color, n, (n + total) \div 2) IN
         IF half.status # "ok" THEN half
         ELSE BuildCells(half, p, w, gfx_idxs, bg_color, (n + total) \div 2, total)

\* what is written to Areas/<area>/<theme>.json and read back from it
AreaFile(area) == [area EXCEPT !.modified = FALSE]

\* EditorState::cleanup_areas on [status, state, files]: the areas that are
\* neither main nor side are saved if modified, and unloaded
CleanupAreas(e) ==
    LET keep == {e.state.main_area_id, e.state.side_area_id}
        gone == DOMAIN e.state.areas \ keep
        dirty == {k \in gone : e.state.areas[k].modified}
    IN  IF dirty # {} /\ ~e.state.project_dir THEN [e EXCEPT !.status = "err"]
        ELSE [e EXCEPT !.state.areas = [k \in DOMAIN e.state.areas \cap keep |-> e.state.areas[k]],
                       !.files.areas = [k \in dirty |-> AreaFile(e.state.areas[k])] @@ @]

\* EditorState::set_area(AreaPosition::Main, area)
SetMainArea(e, area) ==
    CleanupAreas([e EXCEPT !.state.areas = (AreaId(area) :> area) @@ @,
                           !.state.main_area_id = AreaId(area)])

\* save_area_json(state, id)
SaveAreaJson(e, id) ==
    IF e.status # "ok" THEN e
    ELSE IF ~e.state.project_dir THEN [e EXCEPT !.status = "err"]
    ELSE [e EXCEPT !.files.areas = (id :> AreaFile(e.state.areas[id])) @@ @]

\* the body of the loop over parent for a top-level slot
BuildArea ==
    /\ Stage("load_areas_loop")
    /\ parent <= LastParent
    /\ importer.map_parents[parent + 1] = parent
    /\ LET region == RegionSize(parent)
           gfx_idxs == GfxIdxs(parent)
           bg_color == BgColor(parent)
           area == [modified |-> FALSE, name |-> RegionName(parent), theme |-> "Base",
                    bg_color |-> bg_color, size |-> AreaSize(region),
                    screens |-> NewScreens(AreaSize(region)[1], AreaSize(region)[2])]
           acc == BuildCells([status |-> "ok", c |-> Canon, area |-> area,
                              bg |-> importer.pal_bg_color, cell |-> cell, calls |-> calls],
                             parent, region[1], gfx_idxs, bg_color, 0,
                             region[1] * region[2] * GridDim * GridDim * 16)
           named == [state EXCEPT !.area_names = Append(@, area.name)]
           saved == SaveAreaJson(SetMainArea([status |-> "ok", state |-> named, files |-> files],
                                             acc.area),
                                 AreaId(area))
       IN  IF GfxIdxsPanics(parent) \/ BgColorFails
           THEN /\ Failed(IF GfxIdxsPanics(parent) THEN "panic" ELSE "err")
                /\ UNCHANGED <<evars, cvars, importer, parent>>
           ELSE /\ tile_lookup' = acc.c.tile_lookup
                /\ used_tiles' = acc.c.used_tiles
                /\ h_flippable' = acc.c.h_flippable
                /\ v_flippable' = acc.c.v_flippable
                /\ cell' = acc.cell
                /\ calls' = acc.calls
                /\ importer' = [importer EXCEPT !.pal_bg_color = acc.bg]
                /\ IF acc.status # "ok"
                   THEN /\ state' = named
                        /\ Failed(acc.status)
                        /\ UNCHANGED <<files, parent>>
                   ELSE /\ state' = saved.state
                        /\ files' = saved.files
                        /\ IF saved.status # "ok"
                           THEN Failed(saved.status) /\ UNCHANGED parent
                           ELSE parent' = parent + 1 /\ UNCHANGED <<pc, import_result>>
    /\ UNCHANGED <<uvars, dvars, avars, image, before>>

\* mutant: the flags learned are not copied to the tiles
PaletteTilesUnflagged(i) ==
    LET n == Len(used_tiles[i]) IN
    [j \in 1..(((n + 15) \div 16) * 16) |-> IF j <= n THEN used_tiles[i][j] ELSE DefaultTile]

\* used_tiles[i] with the flags set, resized to a multiple of 16
PaletteTiles(i) ==
    LET n == Len(used_tiles[i]) IN
    [j \in 1..(((n + 15) \div 16) * 16) |->
        IF j <= n THEN [used_tiles[i][j] EXCEPT !.h_flippable = h_flippable[i][j],
                                                !.v_flippable = v_flippable[i][j]]
        ELSE DefaultTile]

\* after the loop: self.state.palettes[i].tiles = used_tiles[i].clone()
LoadAreasEnd ==
    /\ Stage("load_areas_loop")
    /\ parent > LastParent
    /\ state' = [state EXCEPT !.palettes =
           [i \in 1..Len(state.palettes) |-> [state.palettes[i] EXCEPT !.tiles = PaletteTiles(i)]]]
    /\ Goto("prune_palettes")
    /\ UNCHANGED <<uvars, dvars, avars, cvars, files, image, importer, before, parent>>

\* mutant: a palette whose tiles fit in one row of 16 is dropped as well
KeepPaletteOverOneRow(p) == Len(p.tiles) > 16

\* if self.state.palettes[pal_idx].tiles.len() > 0
KeepPalette(p) == Len(p.tiles) > 0

PrunePalettes ==
    /\ Stage("prune_palettes")
    /\ state' = [state EXCEPT !.palettes = SelectSeq(@, KeepPalette)]
    /\ Goto("assign_bg_colors")
    /\ UNCHANGED <<uvars, dvars, avars, cvars, files, image, importer, before, parent>>

AssignBgColors ==
    /\ Stage("assign_bg_colors")
    /\ state' = [state EXCEPT !.palettes =
           [i \in 1..Len(state.palettes) |->
               IF state.palettes[i].id \in DOMAIN importer.pal_bg_color
               THEN [state.palettes[i] EXCEPT !.color0 = importer.pal_bg_color[state.palettes[i].id]]
               ELSE state.palettes[i]]]
    /\ Goto("save_project")
    /\ UNCHANGED <<uvars, dvars, avars, cvars, files, image, importer, before, parent>>

-----------------------------------------------------------------------------
(* persist.rs: save_project and load_project, on [status, state, files]     *)

\* what is written to Palettes/<name>.json and read back from it
PaletteFile(pal) == [pal EXCEPT !.modified = FALSE]

\* save_palettes: the modified palettes are written under their names
SavePalettes(e) ==
    LET pals == e.state.palettes
        dirty == {k \in 1..Len(pals) : pals[k].modified}
        last(nm) == CHOOSE k \in dirty : pals[k].name = nm /\ \A l \in dirty : pals[l].name = nm => l <= k
    IN  [e EXCEPT !.state.palettes = [k \in 1..Len(pals) |-> [pals[k] EXCEPT !.modified = FALSE]],
                  !.files.palettes = [nm \in {pals[k].name : k \in dirty} |-> PaletteFile(pals[last(nm)])] @@ @]

\* save_area: state.areas[area_id] panics for an area that is not loaded
SaveArea(e, id) ==
    IF e.status # "ok" THEN e
    ELSE IF id \notin DOMAIN e.state.areas THEN [e EXCEPT !.status = "panic"]
    ELSE IF ~e.state.areas[id].modified THEN e
    ELSE [SaveAreaJson(e, id) EXCEPT !.state.areas[id].modified = FALSE]

SaveProject(e) ==
    IF ~e.state.project_dir THEN e
    ELSE SaveArea(SaveArea(SavePalettes(e), e.state.main_area_id), e.state.side_area_id)

\* the place of "<group> <i>-<j>.json" in the order of the file names that
\* glob yields: i is written in hex, so "10" comes between "1" and "2"
PaletteNameKey(name) ==
    LET group == CASE name.group = "Animated" -> 0
                   [] name.group = "Aux" -> 1
                   [] name.group = "Default" -> 2
                   [] name.group = "HUD" -> 3
                   [] name.group = "Main" -> 4
        hex == IF name.i < 16 THEN 32 * name.i ELSE (32 * (name.i \div 16)) + 1 + (name.i % 16)
    IN  (group * 100000) + (hex * 10) + name.j

\* the palettes of the files, in the order of their names
PalettesByName(fl) ==
    LET names == DOMAIN fl
        place(a) == Cardinality({b \in names : PaletteNameKey(b) < PaletteNameKey(a)})
    IN  [r \in 1..Cardinality(names) |->
            LET nm == CHOOSE a \in names : place(a) = r - 1 IN [fl[nm] EXCEPT !.name = nm]]

\* load_palettes
LoadPalettes(e) ==
    LET loaded == PalettesByName(e.files.palettes)
        st == [e.state EXCEPT !.palettes = IF loaded = <<>> THEN <<DefaultPalette>> ELSE loaded]
    IN  IF e.status # "ok" THEN e
        ELSE IF PaletteIdxOutOfRange(st) THEN [e EXCEPT !.state = st, !.status = "panic"]
        ELSE [e EXCEPT !.state = [UpdatePaletteOrder(st) EXCEPT !.palette_idx = 0]]

\* the place of an area name in area_names.sort(): the two hex digits of a
\* region sort as its number, and before the E of Example
NameKey(name) == IF name = ExampleName THEN 256 ELSE name.n

SortedNames(names) ==
    LET place(a) == Cardinality({b \in names : NameKey(b) < NameKey(a)}) IN
    [r \in 1..Cardinality(names) |-> CHOOSE a \in names : place(a) = r - 1]

\* load_area_list: the names of the area files, sorted, or the example area
LoadAreaList(e) ==
    LET names == {id.area : id \in DOMAIN e.files.areas}
        listed == [e EXCEPT !.state.theme_names = <<"Base">>,
                            !.state.area_names = SortedNames(names)]
    IN  IF e.status # "ok" THEN e
        ELSE IF names # {} THEN listed
        ELSE SetMainArea([listed EXCEPT !.state.area_names = <<ExampleName>>], ExampleArea)

\* EditorState::load_area: name and theme come from the id
LoadArea(e, id) ==
    IF e.status # "ok" THEN e
    ELSE IF id \notin DOMAIN e.files.areas THEN [e EXCEPT !.status = "err"]
    ELSE [e EXCEPT !.state.areas = (id :> [e.files.areas[id] EXCEPT !.name = id.area,
                                                                    !.theme = id.theme]) @@ @]

\* EditorState::switch_area; main is TRUE for AreaPosition::Main
SwitchArea(e, main, id) ==
    LET loaded == IF id \in DOMAIN e.state.areas THEN e ELSE LoadArea(e, id) IN
    IF loaded.status # "ok" THEN loaded
    ELSE CleanupAreas(IF main THEN [loaded EXCEPT !.state.main_area_id = id]
                      ELSE [loaded EXCEPT !.state.side_area_id = id])

\* load_project: unwrap panics when no project directory is set
LoadProject(e) ==
    IF e.status # "ok" THEN e
    ELSE IF ~e.state.project_dir THEN [e EXCEPT !.status = "panic"]
    ELSE LET listed == LoadAreaList(LoadPalettes(e))
             id == [area |-> listed.state.area_names[1], theme |-> listed.state.theme_names[1]]
         IN  IF listed.status # "ok" THEN listed
             ELSE [SwitchArea(SwitchArea(listed, TRUE, id), FALSE, id)
                      EXCEPT !.state.palette_idx = 0]

\* the loop that renders each area: load_area, save_area_png (no state is
\* changed by it), areas.remove
RECURSIVE RenderAreas(_, _)
RenderAreas(e, n) ==
    IF n > Len(e.state.area_names) \/ e.status # "ok" THEN e
    ELSE LET id == [area |-> e.state.area_names[n], theme |-> "Base"]
             loaded == LoadArea(e, id)
         IN  IF loaded.status # "ok" THEN loaded
             ELSE RenderAreas([loaded EXCEPT !.state.areas =
                                  [k \in DOMAIN loaded.state.areas \ {id} |-> loaded.state.areas[k]]],
                              n + 1)

\* the end of import_all: save_project, load_project, the rendering loop and
\* load_project again
SaveAndReload ==
    /\ Stage("save_project")
    /\ LET saved == SaveProject([status |-> "ok", state |-> state, files |-> files])
           done == LoadProject(RenderAreas(LoadProject(saved), 1))
       IN  /\ state' = done.state
           /\ files' = done.files
           /\ IF done.status # "ok" THEN Failed(done.status)
              ELSE import_result' = "ok" /\ pc' = "done"
    /\ UNCHANGED <<uvars, dvars, avars, cvars, image, importer, before, parent>>

\* Importer::import, one stage at a time
INext ==
    \/ New
    \/ LoadTileTypes
    \/ ImportAllPalettes
    \/ LoadGraphics
    \/ Load16x16Tiles
    \/ Load32x32Tiles
    \/ LoadMapTiles
    \/ LoadMapParents
    \/ LoadMapPalettes
    \/ LoadMapGfx
    \/ LoadAreasBegin
    \/ SkipChild
    \/ BuildArea
    \/ LoadAreasEnd
    \/ PrunePalettes
    \/ AssignBgColors
    \/ SaveAndReload

\* what an import can publish: the palettes, the area list, the loaded areas and
\* the area files; before holds it as it is when Message::ImportROM is handled
Snapshot(st, fl) ==
    [palettes |-> st.palettes, area_names |-> st.area_names, areas |-> st.areas,
     area_files |-> fl.areas]

\* Message::ImportROM on an editor with a project open, or with none
IInit ==
    /\ image \in RomSamples
    /\ state \in {InitialState} \cup
                 (IF image = BaseRom("jp") THEN {[InitialState EXCEPT !.project_dir = FALSE]} ELSE {})
    /\ files = NoFiles
    /\ importer = <<>>
    /\ pc = "new"
    /\ import_result = "run"
    /\ before = Snapshot(state, files)
    /\ parent = 0

\* files for Constants::auto alone: each signature is there or is another
\* value (0, or the bytes of 0xCA85 swapped), each flag byte is 0 or 1, and
\* the file holds the signatures or ends before them
SignatureRoms ==
    {[BaseRom("none") EXCEPT !.signature = [zs |-> z, jp |-> j, us |-> u],
                             !.flag_gfx = g, !.flag_main_pal = m, !.flag_bg = b,
                             !.end = e] :
        z \in {12419072, 0}, j \in {51845, 34250}, u \in {51845, 34250},
        g \in {0, 1}, m \in {0, 1}, b \in {0, 1}, e \in {"none", "auto"}}

\* Importer::new on a file of SignatureRoms
AutoInit ==
    /\ image \in SignatureRoms
    /\ state = InitialState
    /\ files = NoFiles
    /\ importer = <<>>
    /\ pc = "new"
    /\ import_result = "run"
    /\ before = Snapshot(state, files)
    /\ parent = 0

AutoNext == New

-----------------------------------------------------------------------------
(* The addresses an import hands to PcAddr::from, stage by stage            *)

\* SnesAddr::from_bytes(bank, high, low)
FromBytes(bank, high, low) == BitOr(BitOr(Shl(bank, 16), Shl(high, 8)), low)

\* impl Add<u32> for SnesAddr: (self.0 as u32 + other) as u32; the addresses
\* are below 2^24 and the offsets below 2^16, so the sum never wraps
AddrAdd(a, n) == a + n

\* None, for a field of Constants that is an Option<SnesAddr>
NoAddr == -1

\* the SnesAddr fields of Constants::jp(), with the counts that bound the loops
JpAddrs ==
    [hud_palettes_addr |-> \h1BD660, main_palettes_addr |-> \h1BE6C8,
     aux_palettes_addr |-> \h1BE86C, animated_palettes_addr |-> \h1BE604,
     gfx_bank_addr |-> \h00E7D0, gfx_high_addr |-> \h00E7D5, gfx_low_addr |-> \h00E7DA,
     tiles16_addr |-> \h0F8000, tiles16_cnt |-> 3742,
     tiles32_tl_addr |-> \h038000, tiles32_tr_addr |-> \h03B3C0,
     tiles32_bl_addr |-> \h048000, tiles32_br_addr |-> \h04B3C0,
     map_high_addr |-> \h02F6B1, map_low_addr |-> \h02F891, map_cnt |-> MapCnt,
     custom_map_main_pal_set_addr |-> NoAddr, map_aux_pal_set_addr |-> \h00FD1C,
     special_map_pal_set_addr |-> \h02E595, pal_set_addr |-> \h0CFE74,
     global_gfx_set_addr |-> \h00E0B3, local_gfx_set_addr |-> \h00DDD7,
     map_gfx_set_addr |-> \h00FC9C, custom_gfx_set_addr |-> NoAddr,
     special_gfx_set_addr |-> \h02E585, tile_types |-> \h0FFD94,
     custom_bg_colors_addr |-> NoAddr]

\* Constants::us()
UsAddrs ==
    [JpAddrs EXCEPT !.gfx_bank_addr = \h00E790, !.gfx_high_addr = \h00E795,
                    !.gfx_low_addr = \h00E79A, !.tiles32_tr_addr = \h03B400,
                    !.tiles32_br_addr = \h04B400, !.map_high_addr = \h02F94D,
                    !.map_low_addr = \h02FB2D, !.special_map_pal_set_addr = \h02E831,
                    !.pal_set_addr = \h0ED504, !.global_gfx_set_addr = \h00E073,
                    !.local_gfx_set_addr = \h0DD97, !.special_gfx_set_addr = \h02E821,
                    !.tile_types = \h0E9459]

\* Constants::auto: the addresses of the variant whose signature matches
AutoAddrs(r) ==
    IF r.signature.zs = \hBD8000
    THEN [UsAddrs EXCEPT !.tiles16_addr = \hBD8000, !.tiles16_cnt = 4096,
                         !.tiles32_tr_addr = \h048000, !.tiles32_bl_addr = \h3E8000,
                         !.tiles32_br_addr = \h3F8000,
                         !.custom_gfx_set_addr = IF r.flag_gfx # 0 THEN \h288480 ELSE NoAddr,
                         !.custom_map_main_pal_set_addr =
                             IF r.flag_main_pal # 0 THEN \h288160 ELSE NoAddr,
                         !.custom_bg_colors_addr = IF r.flag_bg # 0 THEN \h288000 ELSE NoAddr]
    ELSE IF r.signature.jp = \hCA85 THEN JpAddrs
    ELSE UsAddrs

\* parents as load_map_parents leaves it
MapParents == SetOtherParents(SetLargeAreas([i \in 1..MapCnt |-> i - 1], 1), 1)

\* the addresses Constants::auto translates to read the signatures and flags
AutoReads(r) ==
    IF r.signature.zs = \hBD8000 THEN <<\h008865, \h288148, \h288141, \h288140>>
    ELSE IF r.signature.jp = \hCA85 THEN <<\h008865, \h00E7D2>>
    ELSE <<\h008865, \h00E7D2, \h00E792>>

\* one pass of the loop of load_graphics: three table entries in bank 0 at the
\* u16 operands read from the ROM, and the sheet address made of their bytes
SheetReads(r, i) ==
    <<FromBankOffset(0, r.gfx_bank + i), FromBankOffset(0, r.gfx_high + i),
      FromBankOffset(0, r.gfx_low + i),
      FromBytes(r.sheet_bank[i], r.sheet_high[i], r.sheet_low[i])>>

\* one pass of the loop of load_map_tiles: each pointer entry, and the u24 read
\* from it taken as the address of the plane
PlaneReads(c, r, i) ==
    <<AddrAdd(c.map_high_addr, i * 3), r.plane_high[i],
      AddrAdd(c.map_low_addr, i * 3), r.plane_low[i]>>

\* one pass of the loop of load_map_palettes
PaletteReads(c, r, i) ==
    LET p == MapParents[i + 1]
        pal_set == IF i = 136 THEN 0
                   ELSE IF p >= 128 THEN r.special_map_pal_set[p - 128]
                   ELSE r.map_aux_pal_set[p]
        prev_pal_set == IF p >= 1 THEN r.map_aux_pal_set[p - 1] ELSE 0
        pal_set_addr == AddrAdd(c.pal_set_addr, pal_set * 4)
    IN  (IF c.custom_map_main_pal_set_addr # NoAddr
         THEN <<AddrAdd(c.custom_map_main_pal_set_addr, p)>> ELSE <<>>)
        \o (IF i = 136 THEN <<>>
            ELSE IF p >= 128 THEN <<AddrAdd(c.special_map_pal_set_addr, p - 128)>>
            ELSE <<AddrAdd(c.map_aux_pal_set_addr, p)>>)
        \o (IF p >= 1 THEN <<AddrAdd(c.map_aux_pal_set_addr, p - 1)>> ELSE <<>>)
        \o <<pal_set_addr, AddrAdd(pal_set_addr, 1), AddrAdd(pal_set_addr, 2)>>
        \o (IF r.pal_set[pal_set * 4 + 1] >= 20
            THEN <<AddrAdd(AddrAdd(c.pal_set_addr, prev_pal_set * 4), 1)>> ELSE <<>>)

\* one pass of the loop of load_map_gfx
GfxReads(c, r, i) ==
    LET p == MapParents[i + 1]
        global_idx == IF p \in 64..127 THEN 33 ELSE IF p = 136 THEN 36 ELSE 32
        local_idx == IF p = 136 THEN 81
                     ELSE IF p >= 128 THEN r.special_gfx_set[p - 128]
                     ELSE r.map_gfx_set[p]
    IN  <<AddrAdd(c.global_gfx_set_addr, global_idx * 8)>>
        \o (IF c.custom_gfx_set_addr # NoAddr THEN <<AddrAdd(c.custom_gfx_set_addr, p * 8)>>
            ELSE (IF p = 136 THEN <<>>
                  ELSE IF p >= 128 THEN <<AddrAdd(c.special_gfx_set_addr, p - 128)>>
                  ELSE <<AddrAdd(c.map_gfx_set_addr, p)>>)
                 \o <<AddrAdd(c.local_gfx_set_addr, local_idx * 4)>>)

\* the stages of import_all that translate addresses, in their order
TranslatingStages ==
    <<"new", "load_tile_types", "import_all_palettes", "load_graphics",
      "load_16x16_tiles", "load_32x32_tiles", "load_map_tiles", "load_map_palettes",
      "load_map_gfx", "load_areas", "prune_palettes">>

\* the addresses a stage hands to PcAddr::from when every read succeeds: a
\* sequence of passes, each the sequence of the addresses of one pass
StageReads(name, c, r) ==
    CASE name = "new" -> <<AutoReads(r)>>
      [] name = "load_tile_types" -> <<<<c.tile_types>>>>
      [] name = "import_all_palettes" ->
             <<<<c.hud_palettes_addr>>, <<c.main_palettes_addr>>,
               <<c.aux_palettes_addr>>, <<c.animated_palettes_addr>>>>
      [] name = "load_graphics" ->
             <<<<c.gfx_bank_addr, c.gfx_high_addr, c.gfx_low_addr>>>>
                 \o [k \in 1..SheetCnt |-> SheetReads(r, k - 1)]
      [] name = "load_16x16_tiles" ->
             [k \in 1..c.tiles16_cnt |->
                 LET tile_addr == AddrAdd(c.tiles16_addr, (k - 1) * 8) IN
                 <<tile_addr, AddrAdd(tile_addr, 2), AddrAdd(tile_addr, 4),
                   AddrAdd(tile_addr, 6)>>]
      [] name = "load_32x32_tiles" ->
             <<<<c.tiles32_tl_addr, c.tiles32_tr_addr, c.tiles32_bl_addr, c.tiles32_br_addr>>>>
      [] name = "load_map_tiles" -> [k \in 1..c.map_cnt |-> PlaneReads(c, r, k - 1)]
      [] name = "load_map_palettes" -> [k \in 1..c.map_cnt |-> PaletteReads(c, r, k - 1)]
      [] name = "load_map_gfx" -> [k \in 1..c.map_cnt |-> GfxReads(c, r, k - 1)]
      [] name = "load_areas" ->
             [k \in 1..(LastParent + 1) |->
                 IF MapParents[k] = k - 1 /\ c.custom_bg_colors_addr # NoAddr
                 THEN <<AddrAdd(c.custom_bg_colors_addr, (k - 1) * 2)>> ELSE <<>>]

\* PcAddr::from(a): the offset, or the panic of the assertion
Translate(a) ==
    IF UpperHalf(a) THEN [snes |-> a, ok |-> TRUE, pc |-> PcAddr(a)]
    ELSE [snes |-> a, ok |-> FALSE, pc |-> Err]

\* the addresses translated out of the passes of a stage: all of them, or those
\* up to the first one that the assertion refuses
Handed(passes) ==
    LET refused(s) == {k \in 1..Len(s) : ~UpperHalf(s[k])}
        bad == {i \in 1..Len(passes) : refused(passes[i]) # {}}
        all(s) == {s[k] : k \in 1..Len(s)}
    IN  IF bad = {} THEN UNION {all(passes[i]) : i \in 1..Len(passes)}
        ELSE UNION {all(passes[i]) : i \in 1..(Least(bad) - 1)}
                 \cup {passes[Least(bad)][k] : k \in 1..Least(refused(passes[Least(bad)]))}

\* one stage of import_all, as far as the translation of addresses goes
TranslateStage ==
    /\ import_result = "run"
    /\ \E n \in 1..(Len(TranslatingStages) - 1) :
          /\ pc = TranslatingStages[n]
          /\ LET c == IF n = 1 THEN AutoAddrs(image) ELSE importer.constants
                 handed == Handed(StageReads(pc, c, image))
             IN  /\ conversions' = conversions \cup {Translate(a) : a \in handed}
                 /\ importer' = [constants |-> c]
                 /\ IF \E a \in handed : ~UpperHalf(a)
                    THEN Failed("panic")
                    ELSE Goto(TranslatingStages[n + 1])
    /\ UNCHANGED <<uvars, dvars, evars, cvars, image, before, parent>>

\* the files of the bounded translations: the tables of a full-size ROM of the
\* format, with the operands, pointers and selectors that become addresses
PointerRom(format) ==
    [signature |-> Signature(format), flag_gfx |-> 0, flag_main_pal |-> 0, flag_bg |-> 0,
     gfx_bank |-> \hCFF3, gfx_high |-> \hD064, gfx_low |-> \hD0D5,
     sheet_bank |-> [i \in 0..(SheetCnt - 1) |-> \h10 + (i \div 16)],
     sheet_high |-> [i \in 0..(SheetCnt - 1) |-> \h80 + ((i * 7) % 128)],
     sheet_low |-> [i \in 0..(SheetCnt - 1) |-> (i * 37) % 256],
     plane_high |-> [i \in 0..(MapCnt - 1) |-> FromBankOffset(\h0B + (i % 2), \h8000 + (i * 201))],
     plane_low |-> [i \in 0..(MapCnt - 1) |-> FromBankOffset(\h0C + (i % 2), \hFFFF - (i * 205))],
     map_aux_pal_set |-> [p \in 0..(MapCnt - 1) |-> p % 32],
     special_map_pal_set |-> [k \in 0..31 |-> k],
     pal_set |-> [o \in 0..1023 |-> PalSetRows[((o \div 4) % 4) + 1][(o % 4) + 1]],
     map_gfx_set |-> [p \in 0..127 |-> (p * 2) % 256],
     special_gfx_set |-> [k \in 0..31 |-> 255 - k]]

\* what a ROM of a format may hold where the import takes addresses from it
PointerRoms ==
    UNION {{PointerRom(f),
            [PointerRom(f) EXCEPT !.flag_gfx = 1, !.flag_main_pal = 1, !.flag_bg = 1],
            [PointerRom(f) EXCEPT !.map_aux_pal_set[0] = 98, !.map_aux_pal_set[2] = 255],
            [PointerRom(f) EXCEPT !.map_aux_pal_set[2] = 255],
            [PointerRom(f) EXCEPT !.gfx_high = \h5064],
            [PointerRom(f) EXCEPT !.sheet_high[7] = \h7F],
            [PointerRom(f) EXCEPT !.sheet_bank[112] = \h7E],
            [PointerRom(f) EXCEPT !.plane_low[16] = \h0C7FFF],
            [PointerRom(f) EXCEPT !.plane_high[159] = 0]} : f \in {"jp", "us", "zs"}}

\* Importer::import on a file of PointerRoms
TranslateInit ==
    /\ image \in PointerRoms
    /\ state = InitialState
    /\ files = NoFiles
    /\ importer = <<>>
    /\ pc = "new"
    /\ import_result = "run"
    /\ before = Snapshot(state, files)
    /\ parent = 0

TranslateNext == TranslateStage

\* 6-byte windows for load_32x32_tiles alone: indexes below 256, indexes with
\* high nibbles of both kinds, the indexes 3741 and 3742 on either side of the
\* 3742 entries of the JP and US 16x16 tables, and 4095
Tiles32Windows ==
    <<<<1, 2, 3, 4, 0, 0>>,
      <<\h9D, \h10, \h20, \h30, \hE1, \h2D>>,
      <<\h9D, \h9E, \h00, \h01, \hEE, \h00>>,
      <<\hFF, \hFF, \hFF, \hFF, \hFF, \hFF>>>>

\* quadrant tables of two windows
Tiles32Tables ==
    {[o \in 0..11 |-> (Tiles32Windows[a] \o Tiles32Windows[b])[o + 1]] :
        a \in 1..2, b \in 2..4}

\* load_32x32_tiles on an importer whose 16x16 table has the entries of a
\* variant (3742 or 4096) and whose 32x32 count is 8: two groups of four
Tiles32Init ==
    /\ \E cnt16 \in {3742, 4096} :
           importer = [NewImporter([JpConstants EXCEPT !.tiles16_cnt = cnt16,
                                                       !.tiles32_cnt = 8])
                          EXCEPT !.tiles16 = [e \in 1..cnt16 |->
                                                 [q \in 1..4 |-> FromVramTilemapWord(0)]]]
    /\ \E tl \in Tiles32Tables, tr \in Tiles32Tables, bl \in Tiles32Tables, br \in Tiles32Tables :
           image = [BaseRom("jp") EXCEPT !.tiles32 = <<tl, tr, bl, br>>]
    /\ state = InitialState
    /\ files = NoFiles
    /\ pc = "load_32x32_tiles"
    /\ import_result = "run"
    /\ before = Snapshot(state, files)
    /\ parent = 0

Tiles32Next == Load32x32Tiles

-----------------------------------------------------------------------------
(* update.rs, undo.rs: update and its undo and redo stacks                  *)

\* the longest the two stacks together get, and the most palettes there are,
\* before new messages stop coming
MaxUndo == 2

MaxPalettes == 3

\* no call of update yet
NoUpdate ==
    [input |-> [type |-> "Nothing"], message |-> [type |-> "Nothing"], undo |-> FALSE,
     outcome |-> "idle", undo_before |-> <<>>, redo_before |-> <<>>, prev |-> <<>>]

UIdle ==
    /\ undo_stack = <<>>
    /\ redo_stack = <<>>
    /\ last_update = NoUpdate

\* Event::Keyboard(KeyPressed { key: Character("z"), modifiers }) with control
KeyZ(shift) == [type |-> "Event", key |-> "z", control |-> TRUE, shift |-> shift]

\* the messages of the model; a palette has the one color color0
BrushColor(palette_id, color) ==
    [type |-> "BrushColor", palette_id |-> palette_id, color_idx |-> 0, color |-> color]

AddPalette(name, id) == [type |-> "AddPalette", name |-> name, id |-> id]

DeletePalette(id) == [type |-> "DeletePalette", id |-> id]

RestorePalette(pal) == [type |-> "RestorePalette", palette |-> pal]

AddArea(name, area_size) == [type |-> "AddArea", name |-> name, size |-> area_size]

DeleteArea(name) == [type |-> "DeleteArea", name |-> name]

\* the messages that the views send in the model
UserMessages ==
    {BrushColor(id, c) : id \in {0, 1}, c \in {<<0, 0, 0>>, <<8, 8, 8>>}}
        \cup {AddPalette([group |-> "Main", i |-> 0, j |-> 0], 1), DeletePalette(1)}
        \cup {AddArea(RegionName(0), <<1, 1>>), DeleteArea(RegionName(0))}
        \cup {[type |-> "SetPixelSize"], [type |-> "SaveProject"]}

\* should_debounce: a brush message equal in every field to the last one
ShouldDebounce(message, last_message) ==
    /\ message.type \in {"BrushColor", "BrushPixel", "TilesetBrush", "AreaBrush"}
    /\ message = last_message

\* get_undo_action: [kind, message], kind "Err" for Err(..)
NoReverse(kind) == [kind |-> kind, message |-> [type |-> "Nothing"]]

GetUndoAction(st, message) ==
    LET found(id) == id \in DOMAIN st.palettes_id_idx_map
        pal(id) == st.palettes[st.palettes_id_idx_map[id] + 1]
    IN  CASE message.type = "AddPalette" ->
                 [kind |-> "Ok", message |-> DeletePalette(message.id)]
          [] message.type = "DeletePalette" ->
                 IF found(message.id)
                 THEN [kind |-> "Ok", message |-> RestorePalette(pal(message.id))]
                 ELSE NoReverse("None")
          [] message.type = "RestorePalette" ->
                 [kind |-> "Ok", message |-> DeletePalette(message.palette.id)]
          [] message.type = "BrushColor" ->
                 IF found(message.palette_id)
                 THEN [kind |-> "Ok",
                       message |-> BrushColor(message.palette_id, pal(message.palette_id).color0)]
                 ELSE NoReverse("Err")
          [] message.type = "AddArea" -> [kind |-> "Ok", message |-> DeleteArea(message.name)]
          [] message.type = "DeleteArea" -> NoReverse("Irreversible")
          [] OTHER -> NoReverse("None")

\* persist::delete_palette: remove_file fails for a palette never saved
DeletePaletteFile(e, name) ==
    IF e.status # "ok" THEN e
    ELSE IF ~e.state.project_dir \/ name \notin DOMAIN e.files.palettes
    THEN [e EXCEPT !.status = "err"]
    ELSE [e EXCEPT !.files.palettes = [nm \in DOMAIN e.files.palettes \ {name} |->
                                          e.files.palettes[nm]]]

\* persist::delete_area: remove_dir_all fails for an area with no directory
DeleteAreaDir(e, name) ==
    LET kept(ids) == {id \in ids : id.area # name} IN
    IF e.status # "ok" THEN e
    ELSE IF ~e.state.project_dir \/ kept(DOMAIN e.files.areas) = DOMAIN e.files.areas
    THEN [e EXCEPT !.status = "err"]
    ELSE [e EXCEPT !.files.areas = [id \in kept(DOMAIN e.files.areas) |-> e.files.areas[id]],
                   !.state.areas = [id \in kept(DOMAIN e.state.areas) |-> e.state.areas[id]]]

\* the loop of Message::AddArea over the themes from the k-th on: set_area
\* and save_area of the new area in each theme
RECURSIVE AddAreaThemes(_, _, _, _)
AddAreaThemes(e, name, area_size, k) ==
    IF e.status # "ok" \/ k > Len(e.state.theme_names) THEN e
    ELSE IF e.state.main_area_id \notin DOMAIN e.state.areas THEN [e EXCEPT !.status = "panic"]
    ELSE LET area == [modified |-> TRUE, name |-> name, theme |-> e.state.theme_names[k],
                      bg_color |-> e.state.areas[e.state.main_area_id].bg_color,
                      size |-> area_size,
                      screens |-> NewScreens(area_size[1], area_size[2])]
             set == SetMainArea(e, area)
         IN  AddAreaThemes(SaveArea(set, set.state.main_area_id), name, area_size, k + 1)

\* try_update of a message on [status, state, files]; the status returned is
\* "some" for Ok(Some(task)), "none" for Ok(None), "err" for Err, "panic"
TryUpdate(e, message) ==
    LET st == e.state
        done(r) == IF r.status = "ok" THEN [r EXCEPT !.status = "some"] ELSE r
        none == [e EXCEPT !.status = "none"]
        pushed(pal) ==
            LET more == [st EXCEPT !.palettes = Append(@, pal)] IN
            [e EXCEPT !.state = UpdatePaletteOrder([more EXCEPT !.palette_idx = Len(more.palettes) - 1])]
    IN  IF ~st.project_dir THEN none
        ELSE CASE message.type = "SaveProject" -> done(SaveProject(e))
          [] message.type = "AddPalette" ->
                 IF \E k \in 1..Len(st.palettes) :
                        st.palettes[k].name = message.name \/ st.palettes[k].id = message.id
                 THEN none
                 ELSE done(pushed([st.palettes[st.palette_idx + 1]
                                      EXCEPT !.name = message.name, !.id = message.id,
                                             !.modified = TRUE]))
          [] message.type = "DeletePalette" ->
                 IF Len(st.palettes) = 1 THEN none
                 ELSE IF message.id \notin DOMAIN st.palettes_id_idx_map
                 THEN [e EXCEPT !.status = "err"]
                 ELSE LET palette_idx == st.palettes_id_idx_map[message.id]
                          gone == DeletePaletteFile(e, st.palettes[palette_idx + 1].name)
                          fewer == [k \in 1..(Len(st.palettes) - 1) |->
                                       st.palettes[IF k <= palette_idx THEN k ELSE k + 1]]
                          removed ==
                              IF st.palette_idx < Len(st.palettes)
                              THEN [st EXCEPT !.palettes = fewer,
                                              !.palette_idx = IF @ = Len(fewer) THEN @ - 1 ELSE @]
                              ELSE st
                      IN  IF gone.status # "ok" THEN gone
                          ELSE IF PaletteIdxOutOfRange(removed)
                          THEN [gone EXCEPT !.state = removed, !.status = "panic"]
                          ELSE done([gone EXCEPT !.state = UpdatePaletteOrder(removed)])
          [] message.type = "RestorePalette" ->
                 done(pushed([message.palette EXCEPT !.modified = TRUE]))
          [] message.type = "BrushColor" ->
                 IF message.palette_id \notin DOMAIN st.palettes_id_idx_map
                 THEN [e EXCEPT !.status = "err"]
                 ELSE done([e EXCEPT
                               !.state.palettes[st.palettes_id_idx_map[message.palette_id] + 1] =
                                   [@ EXCEPT !.color0 = message.color, !.modified = TRUE]])
          [] message.type = "AddArea" ->
                 IF \E k \in 1..Len(st.area_names) : st.area_names[k] = message.name
                 THEN none
                 ELSE LET added == AddAreaThemes(e, message.name, message.size, 1) IN
                      IF added.status # "ok" THEN added
                      ELSE done([added EXCEPT !.state.area_names =
                                    SortedNames({@[k] : k \in 1..Len(@)} \cup {message.name})])
          [] message.type = "DeleteArea" ->
                 IF Len(st.area_names) = 1 THEN none
                 ELSE IF st.main_area_id \notin DOMAIN st.areas THEN [e EXCEPT !.status = "panic"]
                 ELSE LET theme == st.areas[st.main_area_id].theme
                          listed == LoadAreaList(DeleteAreaDir(e, message.name))
                          first == [area |-> listed.state.area_names[1], theme |-> theme]
                          main == IF listed.status = "ok" /\ listed.state.main_area_id.area = message.name
                                  THEN SwitchArea(listed, TRUE, first) ELSE listed
                          side == IF main.status = "ok" /\ main.state.side_area_id.area = message.name
                                  THEN SwitchArea(main, FALSE, first) ELSE main
                      IN  done(side)
          [] OTHER -> done(e)

\* update(state, message)
Update(input) ==
    LET key == input.type = "Event" /\ input.control /\ input.key = "z"
        redo == key /\ input.shift /\ redo_stack # <<>>
        undone == key /\ ~input.shift /\ undo_stack # <<>>
        undo == redo \/ undone
        entry == IF redo THEN redo_stack[Len(redo_stack)] ELSE undo_stack[Len(undo_stack)]
        popped(stack) == SubSeq(stack, 1, Len(stack) - 1)
        undo1 == IF redo THEN Append(undo_stack, entry)
                 ELSE IF undone THEN popped(undo_stack) ELSE undo_stack
        redo1 == IF redo THEN popped(redo_stack)
                 ELSE IF undone THEN Append(redo_stack, entry) ELSE redo_stack
        message == IF redo THEN entry[1] ELSE IF undone THEN entry[2] ELSE input
        debounced == /\ undo1 # <<>>
                     /\ ~undo
                     /\ ShouldDebounce(message, undo1[Len(undo1)][1])
        undo_action == IF undo THEN NoReverse("None") ELSE GetUndoAction(state, message)
        r == TryUpdate([status |-> "ok", state |-> state, files |-> files], message)
        early == debounced \/ undo_action.kind = "Err"
        outcome == IF debounced THEN "debounced"
                   ELSE IF undo_action.kind = "Err" THEN "no undo action"
                   ELSE r.status
        applied == ~early /\ r.status = "some"
    IN  /\ state' = IF early THEN state ELSE r.state
        /\ files' = IF early THEN files ELSE r.files
        /\ undo_stack' = IF applied /\ undo_action.kind = "Irreversible" THEN <<>>
                         ELSE IF applied /\ undo_action.kind = "Ok"
                         THEN Append(undo1, <<message, undo_action.message>>)
                         ELSE undo1
        /\ redo_stack' = IF applied /\ undo_action.kind \in {"Irreversible", "Ok"} THEN <<>>
                         ELSE redo1
        /\ last_update' = [input |-> input, message |-> message, undo |-> undo,
                           outcome |-> outcome,
                           undo_before |-> undo_stack, redo_before |-> redo_stack,
                           prev |-> IF last_update.undo /\ last_update.input = KeyZ(FALSE)
                                    THEN <<last_update.undo_before, last_update.redo_before>>
                                    ELSE <<>>]
        /\ UNCHANGED <<dvars, avars, ivars, cvars>>

\* the editor runs until a panic ends it
Editing == last_update.outcome # "panic" /\ Len(state.palettes) < MaxPalettes

\* Ctrl+Z
PressUndo == Editing /\ Update(KeyZ(FALSE))

\* Ctrl+Shift+Z
PressRedo == Editing /\ Update(KeyZ(TRUE))

\* a message of a view
SendMessage ==
    /\ Editing
    /\ Len(undo_stack) + Len(redo_stack) < MaxUndo
    /\ \E message \in UserMessages : Update(message)

\* the editor on a new project directory
UInit ==
    /\ state = InitialState
    /\ files = NoFiles
    /\ undo_stack = <<>>
    /\ redo_stack = <<>>
    /\ last_update = NoUpdate

UNext == PressUndo \/ PressRedo \/ SendMessage

-----------------------------------------------------------------------------
(* The specifications                                                      *)

InitDecompress == DInit /\ AIdle /\ EIdle /\ IIdle /\ CIdle /\ UIdle

SpecDecompress == InitDecompress /\ [][DNext]_vars

InitHeader == HeaderInit /\ AIdle /\ EIdle /\ IIdle /\ CIdle /\ UIdle

SpecHeader == InitHeader /\ [][DNext]_vars

InitAddr == AInit /\ DIdle /\ EIdle /\ IIdle /\ CIdle /\ UIdle

SpecAddr == InitAddr /\ [][ANext]_vars

InitCanon == DIdle /\ AIdle /\ EInit /\ IIdle /\ CInit /\ UIdle

SpecCanon == InitCanon /\ [][CNext]_vars

InitImport == DIdle /\ AIdle /\ IInit /\ CIdle /\ UIdle

SpecImport == InitImport /\ [][INext]_vars

InitAuto == DIdle /\ AIdle /\ AutoInit /\ CIdle /\ UIdle

SpecAuto == InitAuto /\ [][AutoNext]_vars

InitTranslate == DIdle /\ AIdle /\ TranslateInit /\ CIdle /\ UIdle

SpecTranslate == InitTranslate /\ [][TranslateNext]_vars

InitTiles32 == DIdle /\ AIdle /\ Tiles32Init /\ CIdle /\ UIdle

SpecTiles32 == InitTiles32 /\ [][Tiles32Next]_vars

InitUndo == DIdle /\ AIdle /\ IIdle /\ CIdle /\ UInit

SpecUndo == InitUndo /\ [][UNext]_vars

-----------------------------------------------------------------------------
(* Claims about decompress (SpecDecompress)                                *)

\* C1: a back-reference block (type 4) with offset o and length n, decoded when m
\* bytes were out, has o < m and appends n bytes with appended[k] = out[o+k], out
\* being the output as it grows; so every read is in range, and the appended bytes
\* repeat the segment out[o..m) periodically, also when o + n > m.
C1_BackReference ==
    block_type = 4 =>
        LET m == Len(out) - size IN
        /\ offset < m
        /\ \A k \in 0..(size - 1) :
              /\ offset + k < m + k
              /\ out[m + k + 1] = out[offset + k + 1]
              /\ out[m + k + 1] = out[offset + (k % (m - offset)) + 1]

\* C1 witness: an overlapping copy (o + n > m) of a segment of two different bytes
C1_Witness ==
    /\ block_type = 4
    /\ offset + size > Len(out) - size
    /\ Len(out) - size - offset = 2
    /\ out[offset + 1] # out[offset + 2]

\* The output a stream of blocks of types 0-3 ending in 0xFF is meant to have,
\* read off the ROM from address a; Malformed for any other stream.
Malformed == <<Err>>

IntendedBlock(t, n, d) ==
    CASE t = 0 -> [k \in 1..n |-> rom[d + k]]
      [] t = 1 -> [k \in 1..n |-> rom[d + 1]]
      [] t = 2 -> [k \in 1..n |-> IF k % 2 = 1 THEN rom[d + 1] ELSE rom[d + 2]]
      [] t = 3 -> [k \in 1..n |-> (rom[d + 1] + (k - 1)) % 256]

IntendedData(t, n) == IF t = 0 THEN n ELSE IF t = 2 THEN 2 ELSE 1

RECURSIVE IntendedStream(_)
IntendedStream(a) ==
    IF a >= Len(rom) THEN Malformed
    ELSE IF rom[a + 1] = 255 THEN <<>>
    ELSE LET c == rom[a + 1]
             long == c \div 32 = 7
             t == IF long THEN (c \div 4) % 8 ELSE c \div 32
             d == IF long THEN a + 2 ELSE a + 1
         IN IF t > 3 \/ d > Len(rom) THEN Malformed
            ELSE LET n == IF long THEN (c % 4) * 256 + rom[a + 2] + 1 ELSE (c % 32) + 1
                 IN IF d + IntendedData(t, n) > Len(rom) THEN Malformed
                    ELSE LET rest == IntendedStream(d + IntendedData(t, n))
                         IN IF rest = Malformed THEN Malformed
                            ELSE IntendedBlock(t, n, d) \o rest

\* C2: on a stream of blocks of types 0-3 followed by 0xFF, decompress never fails,
\* what it has decoded is always a prefix of the blocks' intended bytes, and it
\* returns exactly their concatenation.
C2_BlocksDecodeToIntended ==
    LET e == IntendedStream(0) IN
    e # Malformed =>
        /\ result \in {"run", "ok"}
        /\ Len(out) <= Len(e)
        /\ out = SubSeq(e, 1, Len(out))
        /\ result = "ok" => out = e

\* C2 witness: the raw block of eight bytes followed by 0xFF has been decoded
C2_Witness ==
    /\ rom = ExampleStream
    /\ result = "ok"
    /\ out = <<65, 65, 1, 2, 3, 4, 5, 6>>

-----------------------------------------------------------------------------
(* Claims about the address translation (SpecAddr)                         *)

Bit15Set(a) == (a \div 32768) % 2 = 1

Bank(a) == a \div 65536

\* C3 as stated: any two distinct accepted addresses get different FileOffsets.
C3_Original ==
    \A p, q \in conversions :
        (p.ok /\ q.ok /\ p.snes # q.snes) => p.pc # q.pc

\* C3 as amended: two distinct accepted 24-bit addresses get the same FileOffset
\* exactly when they differ in bit 23 only (a bank 0x80-0xFF and the bank
\* 0x00-0x7F it mirrors); so translation is injective on the accepted addresses
\* below 0x800000.
C3_InjectiveUpToMirror ==
    \A p, q \in conversions :
        (p.ok /\ q.ok /\ p.snes # q.snes) =>
            /\ (p.pc = q.pc) <=> (p.snes % 8388608 = q.snes % 8388608)
            /\ (p.snes < 8388608 /\ q.snes < 8388608) => p.pc # q.pc

\* C3 witness: two accepted addresses of neighbouring banks 0x00 and 0x01, and
\* with them the translation's shift, have been translated
C3_Witness ==
    \E p, q \in conversions :
        /\ p.ok /\ q.ok
        /\ Bank(p.snes) = 0 /\ Bank(q.snes) = 1
        /\ p.pc < 32768 /\ q.pc >= 32768

\* an address of the ROM-mapped upper half of a bank: bit 0x8000 set, and the
\* bank neither WRAM (0x7E, 0x7F) nor a mirror (0x80-0xFF)
RomMappedUpperHalf(a) == Bit15Set(a) /\ Bank(a) < 126

\* C4 as stated: translation yields a FileOffset only for ROM-mapped upper-half
\* addresses and fails for every other address.
C4_Original ==
    \A c \in conversions : c.ok <=> RomMappedUpperHalf(c.snes)

\* C4 as amended: translation fails exactly when bit 0x8000 is clear; every
\* address with the bit set yields a FileOffset (below 0x400000), whatever its bank.
C4_FailsIffLowerHalf ==
    \A c \in conversions :
        /\ c.ok <=> Bit15Set(c.snes)
        /\ c.ok => c.pc \in 0..4194303
        /\ ~c.ok => c.pc = Err

\* C4 witness: a lower-half address was refused and an upper-half address of a
\* mirror bank was translated
C4_Witness ==
    \E c, d \in conversions :
        /\ ~c.ok /\ ~Bit15Set(c.snes)
        /\ d.ok /\ Bank(d.snes) >= 128

-----------------------------------------------------------------------------
(* Claims about the tile lookup (SpecCanon)                                *)

\* the pixels of a tile seen through a flip: column x shows column
\* TileDim + 1 - x under a horizontal flip, row y shows row TileDim + 1 - y
\* under a vertical one
Mirror(flip, pixels) ==
    [y \in 1..TileDim |-> [x \in 1..TileDim |->
        pixels[IF flip \in {"Vertical", "Both"} THEN TileDim + 1 - y ELSE y]
              [IF flip \in {"Horizontal", "Both"} THEN TileDim + 1 - x ELSE x]]]

\* C5: whatever calls came before, on every palette, for every tile T (with
\* its collision code), flip f and priority: looking T up with flip f gives the same stored
\* index as looking the mirrored tile up with flip none; and once T is looked
\* up, looking up any mirror image of it gives that index again and stores
\* nothing new.
C5_CanonicalizerSymmetry ==
    \A p \in 0..(Len(tile_lookup) - 1), k \in DOMAIN SamplePixels, f \in Flips,
       priority \in BOOLEAN :
        LET T == SamplePixels[k]
            collision == SampleCollisions[k]
            withFlip == Canonicalize(Canon, p, MakeTile(priority, collision, ApplyToPixels(f, T)))
            mirrored == Canonicalize(Canon, p,
                            MakeTile(priority, collision, ApplyToPixels("None", Mirror(f, T))))
            first == Canonicalize(Canon, p, MakeTile(priority, collision, T))
            again == Canonicalize(first.c, p, MakeTile(priority, collision, Mirror(f, T)))
        IN  /\ withFlip.tile_idx = mirrored.tile_idx
            /\ again.tile_idx = first.tile_idx
            /\ again.c.used_tiles = first.c.used_tiles

\* a corner tile is stored and its mirror image under both flips is looked up:
\* it gets the stored index 0 with flip Both and nothing is stored; before
\* that, a tile with a symmetry (two keys of its four coincide) was stored too
C5_Witness ==
    /\ pc = "idle"
    /\ calls = 2
    /\ Len(used_tiles[1]) = 1
    /\ used_tiles[1][1].pixels = Corner
    /\ cell.tile.pixels = Mirror("Both", Corner)
    /\ cell.tile_idx = 0
    /\ cell.flip = "Both"
    /\ h_flippable[1][1] /\ v_flippable[1][1]


-----------------------------------------------------------------------------
(* Claims about Importer::import (SpecImport)                              *)

\* load_map_palettes has returned Ok
MapPalettesLoaded ==
    pc \in {"load_map_gfx", "load_areas", "load_areas_loop", "prune_palettes",
            "assign_bg_colors", "save_project", "done"}

\* the aux2 byte of the palette set of slot i itself
OwnAux2(i) == image.pal_set[PalSetOf(i) * 4 + 1]

\* C6: when the aux2 byte at pal_set * 4 + 1 of a slot is 20 or more, the
\* resolved aux2 of the slot is the byte at prev_pal_set * 4 + 1, and the
\* slot's own out-of-range value is not kept.
C6_FallbackNeverKeepsOwnValue ==
    MapPalettesLoaded =>
        \A i \in 0..(MapCnt - 1) :
            OwnAux2(i) >= 20 =>
                /\ importer.map_palettes[i + 1].aux2 = image.pal_set[PrevPalSetOf(i) * 4 + 1]
                /\ importer.map_palettes[i + 1].aux2 # OwnAux2(i)

\* slot 2 and slot 1 before it use the same palette set, whose aux2 is 0xFF:
\* the fallback reads the same byte again and the slot keeps 255
C6_Witness ==
    /\ pc = "load_map_gfx"
    /\ PalSetOf(2) = 2
    /\ PrevPalSetOf(2) = 2
    /\ OwnAux2(2) = 255
    /\ importer.map_palettes[3].aux2 = 255

\* set_area has made a region's area the main area
Emitted ==
    /\ pc = "load_areas_loop"
    /\ state.main_area_id.area # ExampleName
    /\ state.main_area_id \in DOMAIN state.areas

\* the area emitted last and its parent slot
LastArea == state.areas[state.main_area_id]

LastParentSlot == state.main_area_id.area.n

\* slot p + 1 is a child of slot p
HasChildNext(p) == importer.map_parents[p + 2] = p

\* C7 as stated: a region whose parent slot p has slot p + 1 as a child
\* produces an Area whose size is (2,2) screens.
C7_Original ==
    Emitted /\ HasChildNext(LastParentSlot) => LastArea.size = <<2, 2>>

\* C7: a region whose parent slot p has slot p + 1 as a child produces an Area
\* whose size is (4,4) screens, two for each slot in each direction; a region
\* of one slot produces an Area of (2,2) screens.
C7_TwoByTwoSlotsAreFourByFourScreens ==
    Emitted =>
        LastArea.size = IF HasChildNext(LastParentSlot) THEN <<4, 4>> ELSE <<2, 2>>

C7_Witness ==
    /\ Emitted
    /\ LastParentSlot = 0
    /\ HasChildNext(0)
    /\ importer.map_parents[9] = 0
    /\ importer.map_parents[10] = 0
    /\ LastArea.size = <<4, 4>>
    /\ Len(LastArea.screens) = 16

\* the palette id and the pixels that run l of the loop body in the region of
\* slot p takes from the tile data of slot p + my * 8 + mx
SourceCell(p, l) ==
    LET t8 == SourceTile8(p, l)
        pal_high == (t8.gfx_char \div 64) \in {0, 3, 4, 5}
    IN  [palette |-> PaletteId(t8.pal_idx, pal_high, importer.map_palettes[p + 1]).id,
         pixels |-> ApplyToPixels(t8.flip, importer.tiles8[GfxIdxs(p)[t8.gfx_char + 1] + 1])]

\* the pixels a cell shows: its tile in the tile list of its palette, flipped
ShownPixels(c) ==
    ApplyToPixels(c.flip, used_tiles[state.palettes_id_idx_map[c.palette] + 1][c.tile + 1].pixels)

\* C8: the Area of a 2x2 region is filled from the tile data of the four slots
\* p, p+1, p+8, p+9, a quadrant each; and in every region each run of the loop
\* body writes a cell inside the Area's size, no two runs write the same cell
\* and the runs are as many as the cells, so that every cell is written exactly
\* once and holds the palette and the pixels of its source tile, not the
\* initial value.
C8_EveryCellWrittenOnceFromItsSlot ==
    Emitted =>
        LET area == LastArea
            p == LastParentSlot
            region == RegionSize(p)
            total == region[1] * region[2] * GridDim * GridDim * 16
            at(n) == LoopIndexes(n, region[1])
            written == {<<CellX(at(n)), CellY(at(n))>> : n \in 0..(total - 1)}
        IN  /\ HasChildNext(p) =>
                   /\ {p + (at(n).my * 8) + at(n).mx : n \in 0..(total - 1)} = {p, p + 1, p + 8, p + 9}
                   /\ \A n \in 0..(total - 1) :
                          /\ CellX(at(n)) \div SlotDim = at(n).mx
                          /\ CellY(at(n)) \div SlotDim = at(n).my
            /\ \A n \in 0..(total - 1) : ~OutOfRange(area, CellX(at(n)), CellY(at(n)))
            /\ Cardinality(written) = total
            /\ total = area.size[1] * area.size[2] * ScreenDim * ScreenDim
            /\ \A n \in 0..(total - 1) :
                   LET c == GetCell(area, CellX(at(n)), CellY(at(n))) IN
                   /\ c.palette # 0
                   /\ c.palette = SourceCell(p, at(n)).palette
                   /\ ShownPixels(c) = SourceCell(p, at(n)).pixels

\* the first cell of each quadrant of the area of region 0 shows the first
\* tile of slots 0, 1, 8 and 9, which are not all the same
C8_Witness ==
    /\ Emitted
    /\ LastParentSlot = 0
    /\ LET first(mx, my) == [j |-> 0, i |-> 0, tx |-> 0, ty |-> 0, mx |-> mx, my |-> my]
           shown(mx, my) == GetCell(LastArea, mx * SlotDim, my * SlotDim)
       IN  /\ \A mx, my \in {0, 1} :
                  /\ shown(mx, my).palette = SourceCell(0, first(mx, my)).palette
                  /\ ShownPixels(shown(mx, my)) = SourceCell(0, first(mx, my)).pixels
           /\ SourceTile8(0, first(1, 0)) # SourceTile8(0, first(0, 0))
           /\ SourceTile8(0, first(0, 1)) # SourceTile8(0, first(0, 0))
           /\ SourceTile8(0, first(1, 1)) # SourceTile8(0, first(1, 0))

\* prune_palettes has returned Ok
Pruned == pc \in {"assign_bg_colors", "save_project", "done"}

\* the areas the import has emitted: the area files of the regions
EmittedAreas == {files.areas[id] : id \in {d \in DOMAIN files.areas : d.area # ExampleName}}

\* the palette of that id that is retained has a tile at that index
Resolves(palette_id, tile_idx) ==
    \E k \in 1..Len(state.palettes) :
        /\ state.palettes[k].id = palette_id
        /\ tile_idx < Len(state.palettes[k].tiles)

\* C9: once the areas are built, the tile lists assigned and the empty
\* palettes pruned, every cell of every emitted Area holds a palette id and a
\* tile index such that a palette of that id is retained and the tile index is
\* smaller than the length of its tile list.
C9_EveryCellResolves ==
    Pruned =>
        \A area \in EmittedAreas :
            \A x \in 0..(area.size[1] * ScreenDim - 1), y \in 0..(area.size[2] * ScreenDim - 1) :
                Resolves(GetCell(area, x, y).palette, GetCell(area, x, y).tile)

\* a completed import: palettes were pruned, and a cell of region 0 has a tile
\* index other than 0 in a palette that is retained
C9_Witness ==
    /\ pc = "done"
    /\ import_result = "ok"
    /\ Len(state.palettes) < Len(PaletteNames)
    /\ Len(state.palettes) > 0
    /\ \E area \in EmittedAreas :
           /\ area.name.n = 0
           /\ \E x, y \in 0..(4 * ScreenDim - 1) :
                  /\ GetCell(area, x, y).tile > 0
                  /\ Resolves(GetCell(area, x, y).palette, GetCell(area, x, y).tile)

\* C10: if the import fails with a fatal error at any stage, the palette
\* list, the area-name list, the loaded areas and the area files of the
\* project are exactly as they were before the import began.
C10_NoPartialOutput ==
    import_result = "err" => Snapshot(state, files) = before

\* sheet 0 decompresses to 0x5FF bytes and load_graphics returns Err: the
\* palette list is already the 106 imported palettes
C10_Witness ==
    /\ pc = "load_graphics"
    /\ import_result = "err"
    /\ image.sheets[0].len = SheetLen - 1
    /\ before.palettes = <<DefaultPalette>>
    /\ Len(state.palettes) = Len(PaletteNames)
    /\ state.palettes # before.palettes

-----------------------------------------------------------------------------
(* Claims about the tiles an import stores (SpecImport)                    *)

\* import_all has returned Ok
Completed == pc = "done" /\ import_result = "ok"

\* the retained palette of an id, and its tile list
PaletteOf(id) ==
    state.palettes[CHOOSE k \in 1..Len(state.palettes) : state.palettes[k].id = id]

\* the tiles load_areas stored for the palette of an id, without the default
\* tiles of the resize: in load_areas the palette of id d stands at index
\* d - starting_palette_id of the tables
StoredCount(id) == Len(used_tiles[id - starting_palette_id + 1])

StoredTile(id, j) == PaletteOf(id).tiles[j + 1]

\* one pixel grid is the other under one of the four flips
UpToFlip(a, b) == \E f \in Flips : ApplyToPixels(f, a) = b

\* the (palette id, tile index, displayed pixels) of the cells of the emitted areas
CellsShown ==
    UNION {{LET c == GetCell(area, x, y) IN
            <<c.palette, c.tile, ApplyToPixels(c.flip, StoredTile(c.palette, c.tile).pixels)>> :
                x \in 0..(area.size[1] * ScreenDim - 1),
                y \in 0..(area.size[2] * ScreenDim - 1)} : area \in EmittedAreas}

\* C11: at import completion, within each palette no two stored tiles (the
\* padding aside) have pixel grids that are equal under one of the four
\* flips; and two cells of the same palette whose displayed pixels are equal
\* up to a flip have the same stored tile index, whatever their priority bit
\* and collision code.
C11_DedupOnPixelsOnly ==
    Completed =>
        /\ \A k \in 1..Len(state.palettes) :
               LET id == state.palettes[k].id IN
               \A a, b \in 0..(StoredCount(id) - 1) :
                   a # b => ~UpToFlip(StoredTile(id, a).pixels, StoredTile(id, b).pixels)
        /\ \A c, d \in CellsShown :
               c[1] = d[1] /\ UpToFlip(c[3], d[3]) => c[2] = d[2]

\* a completed import whose retained palette holds two stored tiles with the
\* same pixels that differ in priority or collision code
C11_Witness ==
    /\ Completed
    /\ \E k \in 1..Len(state.palettes) :
           LET id == state.palettes[k].id IN
           \E a, b \in 0..(StoredCount(id) - 1) :
               /\ a # b
               /\ StoredTile(id, a).pixels = StoredTile(id, b).pixels
               /\ \/ StoredTile(id, a).priority # StoredTile(id, b).priority
                  \/ StoredTile(id, a).collision # StoredTile(id, b).collision

-----------------------------------------------------------------------------
(* Claims about Constants::auto (SpecAuto)                                 *)

\* Importer::new has returned
Detected == pc = "load_tile_types" \/ import_result = "err"

MatchesZs == image.signature.zs = 12419072

MatchesJp == image.signature.jp = 51845

MatchesUs == image.signature.us = 51845

\* the variant of a Constants: the ZScream one has the enlarged tables
Variant(c) ==
    IF c.tiles16_cnt = FormatTiles16Cnt("zs") /\ c.tiles32_cnt = FormatTiles32Cnt("zs") THEN "zs"
    ELSE IF c = JpConstants THEN "jp"
    ELSE IF c = UsConstants THEN "us"
    ELSE "other"

\* C12: for a file that holds the three signature locations, the marker of the
\* community tooling is checked first, then the first retail signature (JP),
\* then the second (US); the first that matches decides the variant whatever
\* the later ones are; a file that matches none fails with an error and no
\* Constants (no Importer) is made.
C12_FirstMatchDecides ==
    Detected /\ image.end # "auto" =>
        IF MatchesZs THEN import_result = "run" /\ Variant(importer.constants) = "zs"
        ELSE IF MatchesJp THEN import_result = "run" /\ Variant(importer.constants) = "jp"
        ELSE IF MatchesUs THEN import_result = "run" /\ Variant(importer.constants) = "us"
        ELSE import_result = "err" /\ importer = <<>>

\* a file with both retail signatures and without the marker was detected as JP
C12_Witness ==
    /\ Detected
    /\ image.end # "auto"
    /\ ~MatchesZs /\ MatchesJp /\ MatchesUs
    /\ importer.constants = JpConstants

-----------------------------------------------------------------------------
(* Claims about the table stages (SpecImport)                              *)

\* the stages of import_all in their order, and the stages that have returned
StageOrder ==
    <<"new", "load_tile_types", "import_all_palettes", "load_graphics", "load_16x16_tiles",
      "load_32x32_tiles", "load_map_tiles", "load_map_parents", "load_map_palettes",
      "load_map_gfx", "load_areas", "load_areas_loop", "prune_palettes", "assign_bg_colors",
      "save_project", "done">>

StageNo(name) == CHOOSE k \in 1..Len(StageOrder) : StageOrder[k] = name

\* the stage has returned Ok
Passed(name) == StageNo(pc) > StageNo(name)

\* the stage has returned an error
Rejected(name) == pc = name /\ import_result = "err"

\* the stage was called and is not about to run
Returned(name) == Passed(name) \/ (pc = name /\ import_result # "run")

\* every read and every decompress of the stage goes through, whatever the lengths
SheetsDecode ==
    image.end # "load_graphics" /\ \A i \in 0..(SheetCnt - 1) : image.sheets[i].status = "ok"

PlanesDecode ==
    /\ image.end # "load_map_tiles"
    /\ \A i \in 0..(MapCnt - 1) :
           image.planes[i].high.status = "ok" /\ image.planes[i].low.status = "ok"

WrongSheet(i) == image.sheets[i].len # SheetLen

WrongPlane(i) ==
    Len(image.planes[i].high.data) # PlaneLen \/ Len(image.planes[i].low.data) # PlaneLen

\* C13: when one of the 113 sheets decompresses to a length other than 0x600,
\* load_graphics returns an error and the import stops there; when the high
\* or the low plane of a map slot decompresses to a length other than 256 (a
\* byte for each position of the grid), load_map_tiles returns an error and
\* the import stops there; and when the stages return Ok there are 113 * 64
\* graphics tiles and map_cnt grids of 16 x 16.
C13_LengthValidationIsFatal ==
    /\ Returned("load_graphics") /\ SheetsDecode /\ (\E i \in 0..(SheetCnt - 1) : WrongSheet(i))
           => Rejected("load_graphics")
    /\ Returned("load_map_tiles") /\ PlanesDecode /\ (\E i \in 0..(MapCnt - 1) : WrongPlane(i))
           => Rejected("load_map_tiles")
    /\ Passed("load_graphics") =>
           /\ \A i \in 0..(SheetCnt - 1) : ~WrongSheet(i)
           /\ Len(importer.tiles8) = SheetCnt * SheetTiles
    /\ Passed("load_map_tiles") =>
           /\ \A i \in 0..(MapCnt - 1) : ~WrongPlane(i)
           /\ Len(importer.map_tiles) = importer.constants.map_cnt
           /\ importer.constants.map_cnt = MapCnt
           /\ \A i \in 1..MapCnt :
                  /\ Len(importer.map_tiles[i]) = GridDim
                  /\ \A y \in 1..GridDim : Len(importer.map_tiles[i][y]) = GridDim

\* the last plane of the last slot is one byte too long: load_map_tiles has
\* returned an error, after load_graphics made its 113 * 64 tiles
C13_Witness ==
    /\ Rejected("load_map_tiles")
    /\ PlanesDecode
    /\ Len(image.planes[MapCnt - 1].low.data) = PlaneLen + 1
    /\ \A i \in 0..(MapCnt - 2) : ~WrongPlane(i)
    /\ Len(importer.tiles8) = SheetCnt * SheetTiles
    /\ importer.map_tiles = <<>>

\* the composite-32 index that the two planes of slot i hold for a position
RawTile32(i, y, x) ==
    (256 * image.planes[i].high.data[(y - 1) * GridDim + x])
        + image.planes[i].low.data[(y - 1) * GridDim + x]

\* the aux1 and animated bytes of the palette set of slot i
RawAux1(i) == image.pal_set[PalSetOf(i) * 4]

RawAnimated(i) == image.pal_set[PalSetOf(i) * 4 + 2]

\* that value, or 0 when it is limit or more
Tolerated(raw, limit) == IF raw >= limit THEN 0 ELSE raw

\* C14: a composite-32 index of tiles32_cnt or more in a map plane, an aux1
\* byte of 20 or more and an animated byte of 14 or more do not make their
\* stage fail: the stage returns Ok and 0 is stored in their place; so after
\* load_map_tiles every grid entry is smaller than tiles32_cnt and is an index
\* into the tiles32 table that was built, and after load_map_palettes every
\* slot has aux1 < 20 and animated < 14.
C14_QuirksBecomeZero ==
    /\ Returned("load_map_tiles") /\ PlanesDecode /\ (\A i \in 0..(MapCnt - 1) : ~WrongPlane(i))
           => Passed("load_map_tiles")
    /\ Passed("load_map_tiles") =>
           \A i \in 0..(MapCnt - 1), y \in 1..GridDim, x \in 1..GridDim :
               /\ importer.map_tiles[i + 1][y][x]
                      = Tolerated(RawTile32(i, y, x), importer.constants.tiles32_cnt)
               /\ importer.map_tiles[i + 1][y][x] < importer.constants.tiles32_cnt
               /\ importer.map_tiles[i + 1][y][x] < Len(importer.tiles32)
    /\ Returned("load_map_palettes") /\ image.end # "load_map_palettes"
           => Passed("load_map_palettes")
    /\ Passed("load_map_palettes") =>
           \A i \in 0..(MapCnt - 1) :
               /\ importer.map_palettes[i + 1].aux1 = Tolerated(RawAux1(i), 20)
               /\ importer.map_palettes[i + 1].animated = Tolerated(RawAnimated(i), 14)
               /\ importer.map_palettes[i + 1].aux1 < 20
               /\ importer.map_palettes[i + 1].animated < 14

\* an import that has completed although a plane holds the index tiles32_cnt
\* and a palette set has aux1 = 30 and animated = 20: all three are stored as 0
C14_Witness ==
    /\ Completed
    /\ \E i \in 0..(MapCnt - 1), y \in 1..GridDim, x \in 1..GridDim :
           /\ RawTile32(i, y, x) >= importer.constants.tiles32_cnt
           /\ importer.map_tiles[i + 1][y][x] = 0
    /\ \E i \in 0..(MapCnt - 1) :
           /\ RawAux1(i) = 30
           /\ RawAnimated(i) = 20
           /\ importer.map_palettes[i + 1].aux1 = 0
           /\ importer.map_palettes[i + 1].animated = 0

-----------------------------------------------------------------------------
(* Claims about the areas load_areas emits (SpecImport)                    *)

\* the slots whose parent is the slot itself
TopLevelSlots == {i \in 0..(importer.constants.map_cnt - 1) : importer.map_parents[i + 1] = i}

\* the slots for which an area file was written
EmittedSlots == {id.area.n : id \in {d \in DOMAIN files.areas : d.area # ExampleName}}

\* C15: when load_areas has returned, an Area was emitted for every slot
\* i in 0..map_cnt whose parent is i itself and for no other slot, one Area
\* for each: the area names pushed are as many as those slots.
C15_OneAreaPerTopLevelSlot ==
    Passed("load_areas_loop") =>
        /\ EmittedSlots = TopLevelSlots
        /\ pc = "prune_palettes" => Len(state.area_names) = Cardinality(TopLevelSlots)

\* a completed import: slot 0 has an Area, its child slot 1 has none, and the
\* top-level slot 0x88 (beyond the last slot 0x81 that load_areas visits) has
\* none either
C15_Witness ==
    /\ Completed
    /\ 0 \in EmittedSlots
    /\ 1 \notin EmittedSlots
    /\ 136 \in TopLevelSlots
    /\ 136 \notin EmittedSlots

-----------------------------------------------------------------------------
(* Claims about malformed streams and block headers (SpecDecompress)       *)

\* a read of the data of the block at addr goes past the end of the ROM
DataReadFails ==
    CASE HdrType = 0 -> ReadN(HdrData, HdrSize) = <<Err>>
      [] HdrType \in {1, 3} -> ReadU8(HdrData) = Err
      [] HdrType = 2 -> ReadU8(HdrData) = Err \/ ReadU8(HdrData + 1) = Err
      [] HdrType = 4 -> CopyOffset = Err
      [] OTHER -> FALSE

\* the back-reference at addr has an offset that is not smaller than the
\* number of bytes decoded so far
BadBackReference == HdrType = 4 /\ CopyOffset # Err /\ ~(CopyOffset < Len(out))

\* the stream is malformed at addr: a read past the end of the ROM, a block
\* type outside 0..4, or such a back-reference
MalformedHere ==
    IF byte = Err THEN TRUE
    ELSE IF byte = 255 THEN FALSE
    ELSE IF Extended /\ ReadU8(addr + 1) = Err THEN TRUE
    ELSE HdrType \notin 0..4 \/ DataReadFails \/ BadBackReference

\* C16: whenever decompress meets a malformed place in the stream - a block
\* type outside 0..4, a read past the end of the ROM buffer, or a
\* back-reference whose offset is not strictly less than the number of bytes
\* decoded so far - it returns a decode error to the caller: it does not
\* abort (panic) and it does not go on or return a result.
C16_MalformedStreamReturnsError ==
    [][Running /\ MalformedHere => result' = "err"]_vars

\* a back-reference with offset 0 as the first block, when nothing is decoded
\* yet: the assert fails and decompress panics
C16_Witness ==
    /\ result = "panic"
    /\ addr = 0
    /\ out = <<>>
    /\ BadBackReference
    /\ CopyOffset = 0

\* a block was decoded in this step: the cursor has moved past it
BlockDecoded == addr' # addr

\* the byte after the control byte
SecondByte == rom[addr + 2]

\* the block type that the claim reads from the control byte at addr
StatedType == IF byte \div 32 # 7 THEN byte \div 32 ELSE (byte \div 4) % 8

\* C17 as stated: the extended length is an 11-bit value, the low bits of the
\* control byte above the second byte, plus 1.
C17_Original ==
    [][BlockDecoded /\ byte \div 32 = 7 =>
           size' = ((byte % 8) * 256) + SecondByte + 1]_vars

\* C17: for a control byte other than 0xFF whose top 3 bits are not 7, the
\* block type is the top 3 bits and the length is the low 5 bits plus 1
\* (1..32); when the top 3 bits are 7, one more byte is read, the block type
\* is bits 2-4 of the control byte and the length is a 10-bit value, the low 2
\* bits of the control byte above the second byte, plus 1 (1..1024). The
\* block appends that many bytes, and a type of 5, 6 or 7 is an error.
C17_HeaderDecoding ==
    [][/\ BlockDecoded =>
           /\ byte # 255
           /\ IF byte \div 32 # 7
              THEN /\ block_type' = byte \div 32
                   /\ size' = (byte % 32) + 1
                   /\ size' \in 1..32
              ELSE /\ block_type' = (byte \div 4) % 8
                   /\ size' = ((byte % 4) * 256) + SecondByte + 1
                   /\ size' \in 1..1024
           /\ Len(out') = Len(out) + size'
       /\ HdrRead /\ StatedType \notin 0..4 => result' = "err"]_vars

\* the header 0xE7 0xFF: a byte run (type 1) of 3 * 256 + 255 + 1 = 1024 bytes
C17_Witness ==
    /\ rom[1] = 231
    /\ rom[2] = 255
    /\ block_type = 1
    /\ size = 1024
    /\ Len(out) = 1024
    /\ addr = 3

-----------------------------------------------------------------------------
(* Claims about the cells and the stored tiles at completion (SpecImport)  *)

\* the area file of the region of slot p
AreaOfSlot(p) == files.areas[[area |-> RegionName(p), theme |-> "Base"]]

\* the runs of the loop body for the region of slot p
RunsOf(p) == 0..(RegionSize(p)[1] * RegionSize(p)[2] * GridDim * GridDim * 16 - 1)

\* the cell that run n of the loop body wrote in the area of slot p
CellOfRun(p, n) ==
    GetCell(AreaOfSlot(p), CellX(LoopIndexes(n, RegionSize(p)[1])),
            CellY(LoopIndexes(n, RegionSize(p)[1])))

\* the pixels a cell displays: its recorded flip applied to the stored tile
Displayed(c) == ApplyToPixels(c.flip, StoredTile(c.palette, c.tile).pixels)

\* C18: at import completion, for every cell of every emitted Area, the
\* recorded flip applied to the pixels of the stored tile that the cell
\* references gives the pixels the ROM displays at the cell: the graphics
\* tile of the cell's Tile8 reference with that reference's flip applied.
\* This covers the stored tiles that are equal to themselves under a flip,
\* for which keys of the lookup table coincide.
C18_CellsDisplayTheRomPixels ==
    Completed =>
        \A p \in EmittedSlots : \A n \in RunsOf(p) :
            Displayed(CellOfRun(p, n))
                = SourceCell(p, LoopIndexes(n, RegionSize(p)[1])).pixels

\* a completed import with a cell whose recorded flip is not none although
\* its stored tile is equal to itself under that flip (the key of that flip
\* overwrote the key of flip none), and with a cell that displays a stored
\* tile mirrored
C18_Witness ==
    /\ Completed
    /\ \E n \in RunsOf(0) :
           LET c == CellOfRun(0, n) IN
           /\ c.flip # "None"
           /\ StoredTile(c.palette, c.tile).pixels # BlankPixels
           /\ Displayed(c) = StoredTile(c.palette, c.tile).pixels
           /\ Displayed(c) = SourceCell(0, LoopIndexes(n, RegionSize(0)[1])).pixels
    /\ \E n \in RunsOf(0) :
           LET c == CellOfRun(0, n) IN
           /\ Displayed(c) # StoredTile(c.palette, c.tile).pixels
           /\ Displayed(c) = SourceCell(0, LoopIndexes(n, RegionSize(0)[1])).pixels

\* the (palette id, tile index, flip) of the cells of the emitted areas
CellRefs ==
    UNION {{LET c == GetCell(area, x, y) IN <<c.palette, c.tile, c.flip>> :
                x \in 0..(area.size[1] * ScreenDim - 1),
                y \in 0..(area.size[2] * ScreenDim - 1)} : area \in EmittedAreas}

\* at completion the flags of every stored tile are what the cells that
\* reference it carry
FlagsAreTheFlipsUsed ==
    Completed =>
        LET refs == CellRefs IN
        \A k \in 1..Len(state.palettes) :
            LET id == state.palettes[k].id IN
            \A j \in 0..(StoredCount(id) - 1) :
                /\ StoredTile(id, j).h_flippable
                       <=> (<<id, j, "Horizontal">> \in refs \/ <<id, j, "Both">> \in refs)
                /\ StoredTile(id, j).v_flippable
                       <=> (<<id, j, "Vertical">> \in refs \/ <<id, j, "Both">> \in refs)

\* the step builds the area of the region of slot parent
AreaBuilt ==
    /\ pc = "load_areas_loop"
    /\ parent <= LastParent
    /\ importer.map_parents[parent + 1] = parent
    /\ parent' = parent + 1

\* in a step that builds an area, every tile stored in the step is referenced
\* by a cell of the area, and a run of the loop body that references such a
\* tile with a flip other than none comes after a run that references it: the
\* first run that references it wrote flip none
FirstUseIsUnflipped ==
    AreaBuilt =>
        LET area == state'.areas[state'.main_area_id]
            w == RegionSize(parent)[1]
            at(n) == GetCell(area, CellX(LoopIndexes(n, w)), CellY(LoopIndexes(n, w)))
            stored(c) == c.tile >= Len(used_tiles[state.palettes_id_idx_map[c.palette] + 1])
        IN  /\ UNION {{<<state.palettes[q].id, j>> :
                            j \in Len(used_tiles[q])..(Len(used_tiles'[q]) - 1)} :
                        q \in 1..Len(used_tiles)}
                 \subseteq {<<at(n).palette, at(n).tile>> : n \in RunsOf(parent)}
            /\ \A n \in RunsOf(parent) :
                   stored(at(n)) /\ at(n).flip # "None" =>
                       \E m \in 0..(n - 1) :
                           at(m).palette = at(n).palette /\ at(m).tile = at(n).tile

\* C19: at import completion the horizontal flag of a stored tile is true if
\* and only if a cell of an emitted Area that references the tile carries flip
\* Horizontal or Both, and its vertical flag is true if and only if such a
\* cell carries flip Vertical or Both; and the cell for which a tile is first
\* stored gets flip none, which sets no flag.
C19_LegalFlipsAreTheFlipsUsed ==
    []FlagsAreTheFlipsUsed /\ [][FirstUseIsUnflipped]_vars

\* a completed import with a stored tile that is flippable horizontally only,
\* one that is flippable vertically only, one with both flags and one that is
\* not the blank tile with none
C19_Witness ==
    /\ Completed
    /\ \E k \in 1..Len(state.palettes) :
           LET id == state.palettes[k].id
               flags == {<<StoredTile(id, j).h_flippable, StoredTile(id, j).v_flippable>> :
                            j \in {i \in 0..(StoredCount(id) - 1) :
                                      StoredTile(id, i).pixels # BlankPixels}}
           IN  /\ flags = BOOLEAN \X BOOLEAN
               /\ \E j \in 0..(StoredCount(id) - 1) :
                      /\ <<id, j, "Horizontal">> \in CellRefs
                      /\ <<id, j, "Both">> \notin CellRefs
                      /\ StoredTile(id, j).h_flippable

\* C20: at import completion every stored tile whose pixel grid is equal to
\* itself under the Both flip has both legal-flip flags set.
C20_SelfSymmetricTilesAreBothFlippable ==
    Completed =>
        \A k \in 1..Len(state.palettes) :
            LET id == state.palettes[k].id IN
            \A j \in 0..(StoredCount(id) - 1) :
                ApplyToPixels("Both", StoredTile(id, j).pixels) = StoredTile(id, j).pixels
                    => StoredTile(id, j).h_flippable /\ StoredTile(id, j).v_flippable

\* a completed import with a stored tile, not the blank one, that is equal to
\* itself under the Both flip and has neither flag: the one cell that shows it
\* is the cell that stored it, with flip none
C20_Witness ==
    /\ Completed
    /\ \E k \in 1..Len(state.palettes) :
           LET id == state.palettes[k].id IN
           \E j \in 0..(StoredCount(id) - 1) :
               /\ StoredTile(id, j).pixels # BlankPixels
               /\ ApplyToPixels("Both", StoredTile(id, j).pixels) = StoredTile(id, j).pixels
               /\ ~StoredTile(id, j).h_flippable
               /\ ~StoredTile(id, j).v_flippable
               /\ {r \in CellsShown : r[1] = id /\ r[2] = j}
                      = {<<id, j, StoredTile(id, j).pixels>>}
               /\ <<id, j, "None">> \in CellRefs
               /\ <<id, j, "Both">> \notin CellRefs

-----------------------------------------------------------------------------
(* Claims about the palette groups of a region (SpecImport)                *)

\* the slots whose main group is none of the six imported ones
MainOutOfRange ==
    {i \in 0..(MapCnt - 1) : importer.map_palettes[i + 1].main \notin 0..5}

\* C21: for every slot the resolved main palette group index is one of the 6
\* imported main groups (0-5), when it is hard-coded by the range of the slot
\* index and when it is read from the override table of the variant, so the
\* main-palette lookup of load_areas is always in range.
C21_MainGroupIsImported ==
    MapPalettesLoaded => MainOutOfRange = {}

\* the override table names group 6 for slot 2: load_map_palettes keeps the
\* byte, and the lookup in main_palette_ids panics while the area of slot 2 is
\* built
C21_Witness ==
    /\ pc = "load_areas_loop"
    /\ importer.constants.custom_map_main_pal_set_addr
    /\ image.custom_main_pal[2] = 6
    /\ MainOutOfRange = {2}
    /\ Len(importer.main_palette_ids) = 6
    /\ parent = 2
    /\ import_result = "panic"

-----------------------------------------------------------------------------
(* Claims about the addresses an import translates (SpecTranslate)         *)

\* the address of sheet i as load_graphics assembles it from three ROM bytes
SheetAddr(i) == FromBytes(image.sheet_bank[i], image.sheet_high[i], image.sheet_low[i])

\* C22: no ROM content can trigger the failure of the precondition of the
\* address translation: for each supported variant, every address handed to
\* the translator during an import (a Constants field plus an index offset,
\* also an offset scaled by a byte read from the ROM, and an address assembled
\* from ROM bytes) has bit 0x8000 set.
C22_EveryTranslatedAddressIsUpperHalf ==
    \A c \in conversions : c.ok

\* the high byte of the pointer of sheet 7 is 0x7F in an otherwise sound ROM:
\* the Constants addresses and the sheets before it were translated, and the
\* assertion refuses the address of sheet 7, which ends load_graphics in a panic
C22_Witness ==
    /\ pc = "load_graphics"
    /\ import_result = "panic"
    /\ image.sheet_high[7] = 127
    /\ \A i \in 0..6 : Translate(SheetAddr(i)) \in conversions /\ UpperHalf(SheetAddr(i))
    /\ Translate(importer.constants.gfx_bank_addr) \in conversions
    /\ \E c \in conversions : ~c.ok /\ c.snes = SheetAddr(7)
    /\ \A c \in conversions : ~c.ok => c.snes = SheetAddr(7)

-----------------------------------------------------------------------------
(* Claims about the tables load_areas looks up (SpecImport)                *)

\* load_areas is running its loop over the parent slots
BuildingAreas == pc = "load_areas_loop"

\* the Tile8 references of the 16x16 table
DecodedTile8s ==
    {importer.tiles16[e][q] : e \in 1..Len(importer.tiles16), q \in 1..4}

\* the Tile8 references that the loop body reads for the region of slot p
RegionTile8s(p) ==
    {SourceTile8(p, LoopIndexes(n, RegionSize(p)[1])) : n \in RunsOf(p)}

\* C23: the graphics-index remap table of a region has 1024 entries, one for
\* every graphics-character index of a Tile8 reference (0-1023), built from
\* the 8 GFX-set codes of the region with the animated override on its fixed
\* sub-range; so looking up the character index of any decoded Tile8 in it is
\* in range.
C23_RemapTableCoversEveryCharacter ==
    BuildingAreas =>
        \A p \in TopLevelSlots :
            /\ Len(GfxIdxs(p)) = 1024
            /\ \A t8 \in DecodedTile8s : t8.gfx_char < Len(GfxIdxs(p))

\* a 16x16 entry names character 600: the table of the region being built has
\* the 512 entries of its 8 codes, and the lookup for the cell that shows the
\* character panics
C23_Witness ==
    /\ BuildingAreas
    /\ import_result = "panic"
    /\ ~GfxIdxsPanics(parent)
    /\ Len(GfxIdxs(parent)) = 512
    /\ \E t8 \in RegionTile8s(parent) : t8.gfx_char = 600
    /\ \A k \in 0..31 : GfxIdxs(parent)[448 + k + 1] \in {(89 * 64) + k, (91 * 64) + k}
    /\ MainOutOfRange = {}


\* the palette ids import_all_palettes hands out from starting_palette_id on:
\* 2 HUD rows, 6 main groups of 5 rows, 20 aux groups of 3 rows, 14 animated
HudRow(r) == starting_palette_id + r

MainRow(g, r) == starting_palette_id + 2 + (5 * g) + r

AuxRow(g, r) == starting_palette_id + 32 + (3 * g) + r

AnimatedRow(g) == starting_palette_id + 92 + g

\* the palette the claim names for selector p on sheet s in a region with the
\* palette groups pal
NamedPalette(p, s, pal) ==
    IF p \in {0, 1} THEN HudRow(p)
    ELSE IF s \notin {0, 3, 4, 5}
         THEN (IF p \in 2..6 THEN MainRow(pal.main, p - 2) ELSE AnimatedRow(pal.animated))
         ELSE (IF p \in 2..4 THEN AuxRow(pal.aux1, p - 2) ELSE AuxRow(pal.aux2, p - 5))

\* the groups of pal are among the imported ones
GroupsImported(pal) ==
    pal.main < 6 /\ pal.aux1 < 20 /\ pal.aux2 < 20 /\ pal.animated < 14

\* the palette ids of the cells of the area emitted last
LastAreaPalettes ==
    {GetCell(LastArea, x, y).palette :
        x \in 0..(LastArea.size[1] * ScreenDim - 1),
        y \in 0..(LastArea.size[2] * ScreenDim - 1)}

\* C24: palette selection is total and deterministic: for every selector p in
\* 0..7 and owning sheet s in 0..7 one palette is chosen: p in {0,1} gives HUD
\* row p; for s not in {0,3,4,5}, p in 2..6 gives row p-2 of the main group and
\* p = 7 the animated palette of the region; for s in {0,3,4,5}, p in 2..4
\* gives row p-2 of aux1 and p in 5..7 row p-5 of aux2; the 'unexpected
\* palette' error is returned for no p and s.
C24_PaletteSelectionIsTotal ==
    BuildingAreas =>
        \A slot \in TopLevelSlots : \A p \in 0..7, s \in 0..7 :
            LET pal == importer.map_palettes[slot + 1]
                sel == PaletteId(p, s \in {0, 3, 4, 5}, pal)
            IN  /\ sel.status # "err"
                /\ GroupsImported(pal) =>
                       sel = [status |-> "ok", id |-> NamedPalette(p, s, pal)]

\* an area was emitted whose cells hold a HUD palette, a main palette, an aux
\* palette and an animated palette
C24_Witness ==
    /\ Emitted
    /\ import_result = "run"
    /\ GroupsImported(importer.map_palettes[LastParentSlot + 1])
    /\ \E h \in 0..1 : HudRow(h) \in LastAreaPalettes
    /\ \E r \in 0..4 : MainRow(importer.map_palettes[LastParentSlot + 1].main, r) \in LastAreaPalettes
    /\ \E r \in 0..2 : AuxRow(importer.map_palettes[LastParentSlot + 1].aux1, r) \in LastAreaPalettes
    /\ \E r \in 0..2 : AuxRow(importer.map_palettes[LastParentSlot + 1].aux2, r) \in LastAreaPalettes
    /\ AnimatedRow(importer.map_palettes[LastParentSlot + 1].animated) \in LastAreaPalettes

-----------------------------------------------------------------------------
(* Claims about the background colors of the palettes (SpecImport)         *)

\* assign_bg_colors has returned Ok
BgColorsAssigned == pc \in {"save_project", "done"} /\ import_result \in {"run", "ok"}

Black == <<0, 0, 0>>

\* the cells of an area hold the palette of an id
ShowsPalette(area, id) ==
    \E x \in 0..(area.size[1] * ScreenDim - 1), y \in 0..(area.size[2] * ScreenDim - 1) :
        GetCell(area, x, y).palette = id

\* the background colors of the emitted areas with a cell of that palette
BgColorsOf(id) == {area.bg_color : area \in {a \in EmittedAreas : ShowsPalette(a, id)}}

\* color slot 0 of every retained palette is the one background color of the
\* areas that show it, or black when they have more than one
BgColorIsTheCommonOne ==
    BgColorsAssigned =>
        \A k \in 1..Len(state.palettes) :
            LET colors == BgColorsOf(state.palettes[k].id) IN
            /\ colors # {}
            /\ state.palettes[k].color0 =
                   IF Cardinality(colors) = 1 THEN CHOOSE c \in colors : TRUE ELSE Black

\* an entry that is black stays black in every step, and would stay black for
\* a cell of an area of any background color
BlackStaysBlack ==
    importer # <<>> /\ importer' # <<>> =>
        \A id \in DOMAIN importer.pal_bg_color :
            importer.pal_bg_color[id] = Black =>
                /\ importer'.pal_bg_color[id] = Black
                /\ \A p \in 0..LastParent :
                       TrackBgColor(importer.pal_bg_color, id, BgColor(p))[id] = Black

\* C25: after import, color slot 0 of each retained palette is the common
\* background color when every cell referencing the palette lies in an Area
\* with the same background color, and black [0,0,0] otherwise; once a
\* disagreement is recorded for a palette, no later cell turns its entry back
\* into a color other than black.
C25_BackgroundColorTracking ==
    []BgColorIsTheCommonOne /\ [][BlackStaysBlack]_vars

\* a completed import with a palette that areas of two background colors show,
\* which is black, and a palette shown with one background color only, which
\* has that color
C25_Witness ==
    /\ Completed
    /\ \E k, l \in 1..Len(state.palettes) :
           /\ Cardinality(BgColorsOf(state.palettes[k].id)) >= 2
           /\ state.palettes[k].color0 = Black
           /\ BgColorsOf(state.palettes[l].id) = {<<9, 19, 9>>}
           /\ state.palettes[l].color0 = <<9, 19, 9>>

-----------------------------------------------------------------------------
(* Claims about the parent table (SpecImport)                              *)

\* load_map_parents has returned
ParentsLoaded == importer # <<>> /\ importer.map_parents # <<>>

\* parent[i] of the table
ParentOf(i) == importer.map_parents[i + 1]

\* the parents of the large-area list, in both worlds, and their 2x2 blocks
LargeParents == {LargeAreas[n] + j : n \in 1..Len(LargeAreas), j \in {0, 64}}

Block(p) == {p, p + 1, p + 8, p + 9}

\* C26: for every slot i in 0..map_count, parent[i] is a top-level slot
\* (parent[parent[i]] = parent[i]); a top-level slot is its own parent; and
\* every child slot belongs to one parent: the 2x2 blocks p, p+1, p+8, p+9 of
\* the large-area list do not overlap one another, and each is the block of p.
C26_ParentTableIsConsistent ==
    ParentsLoaded =>
        /\ Len(importer.map_parents) = importer.constants.map_cnt
        /\ \A i \in 0..(importer.constants.map_cnt - 1) :
               /\ ParentOf(i) \in 0..(importer.constants.map_cnt - 1)
               /\ ParentOf(ParentOf(i)) = ParentOf(i)
               /\ ParentOf(i) \in TopLevelSlots
        /\ \A p \in LargeParents :
               /\ \A s \in Block(p) : ParentOf(s) = p
               /\ \A q \in LargeParents \ {p} : Block(p) \cap Block(q) = {}

\* load_map_parents has run: slot 1 is a child of slot 0, slot 0x96 a child of
\* the large-area parent 0x5B, and slot 2 is a top-level slot
C26_Witness ==
    /\ pc = "load_map_palettes"
    /\ import_result = "run"
    /\ ParentOf(1) = 0 /\ ParentOf(0) = 0
    /\ ParentOf(150) = 91 /\ ParentOf(91) = 91 /\ ParentOf(92) = 91
    /\ ParentOf(2) = 2
    /\ Cardinality(TopLevelSlots) < importer.constants.map_cnt

-----------------------------------------------------------------------------
(* Claims about load_32x32_tiles (SpecTiles32)                             *)

\* byte b of the window of the group of entry n, in the table of quadrant q
WindowByte(n, q, b) == image.tiles32[q][(6 * (n \div 4)) + b]

\* the index the claim gives to entry n of quadrant q: the low 8 bits from
\* window byte k, bits 8-11 from a nibble of window byte 4 or 5
ClaimedIdx(n, q) ==
    LET k == n % 4
        high == WindowByte(n, q, IF k < 2 THEN 4 ELSE 5)
        nibble == IF k % 2 = 0 THEN high \div 16 ELSE high % 16
    IN  WindowByte(n, q, k) + (256 * nibble)

\* the entries of the tables, and those with an index beyond the 16x16 table
Tiles32Entries == 0..(importer.constants.tiles32_cnt - 1)

BeyondTiles16 ==
    {<<n, q>> \in Tiles32Entries \X (1..4) : ClaimedIdx(n, q) >= Len(importer.tiles16)}

\* C27: for each group of 4 entries at a 6-byte window offset and each of the
\* four quadrant tables, the 16x16 index of entry k has its low 8 bits from
\* window byte k and bits 8-11 from the upper nibble (k even) or lower nibble
\* (k odd) of window byte 4 (k < 2) or 5 (k >= 2); the import fails if any
\* produced index is >= the number of 16x16 entries, so on success every
\* stored quadrant index is a valid 16x16 index.
C27_Tile32Decoding ==
    /\ pc = "load_map_tiles" =>
           /\ BeyondTiles16 = {}
           /\ Len(importer.tiles32) = importer.constants.tiles32_cnt
           /\ \A n \in Tiles32Entries, q \in 1..4 :
                  /\ importer.tiles32[n + 1][q] = ClaimedIdx(n, q)
                  /\ importer.tiles32[n + 1][q] < Len(importer.tiles16)
    /\ pc = "load_32x32_tiles" /\ import_result # "run" =>
           /\ import_result = "err"
           /\ BeyondTiles16 # {}

\* the stage has passed with indexes above 255 taken from an upper nibble and
\* from a lower nibble, in the second group as well, one of them the last
\* entry 3741 of a 16x16 table of 3742
C27_Witness ==
    /\ pc = "load_map_tiles"
    /\ Len(importer.tiles16) = 3742
    /\ \E q \in 1..4 :
           /\ importer.tiles32[5][q] = 3741
           /\ WindowByte(4, q, 4) = 225
           /\ importer.tiles32[6][q] = 272
           /\ importer.tiles32[7][q] = 544
           /\ importer.tiles32[8][q] = 3376
           /\ WindowByte(4, q, 5) = 45

-----------------------------------------------------------------------------
(* Claims about load_graphics (SpecImport)                                 *)

\* load_graphics has just returned Ok
GraphicsLoaded == pc = "load_16x16_tiles" /\ import_result = "run"

\* the sheet and the place in it of the t-th tile pushed (t from 0)
SheetOfTile(t) == image.sheets[t \div SheetTiles]

\* the bytes of a tile in its decompressed sheet
TileBytesOf(t) ==
    [o \in 0..(TileBytes - 1) |-> SheetByte(SheetOfTile(t), ((t % SheetTiles) * TileBytes) + o)]

\* bit n of a byte
BitOf(b, n) == (b \div (2 ^ n)) % 2

\* C28: graphics decoding is a function of the sheet bytes alone: pixel (x,y)
\* of tile j has bit 0 = bit (7-x) of byte j*24+y*2, bit 1 = bit (7-x) of byte
\* j*24+y*2+1, bit 2 = bit (7-x) of byte j*24+y+16 (a tile here is TileDim
\* pixels wide and high, so 7 is TileDim - 1, 24 is TileBytes and 16 is
\* 2 * TileDim); every pixel value is in 0..7; 113 * 64 tiles are decoded; and
\* tiles decoded from the same bytes are identical.
C28_GraphicsDecoding ==
    GraphicsLoaded =>
        /\ Len(importer.tiles8) = SheetCnt * SheetTiles
        /\ \A t \in 0..(SheetCnt * SheetTiles - 1) :
               LET bytes == TileBytesOf(t) IN
               /\ \A y \in 0..(TileDim - 1), x \in 0..(TileDim - 1) :
                      LET c == importer.tiles8[t + 1][y + 1][x + 1] IN
                      /\ c \in 0..7
                      /\ BitOf(c, 0) = BitOf(bytes[y * 2], TileDim - 1 - x)
                      /\ BitOf(c, 1) = BitOf(bytes[(y * 2) + 1], TileDim - 1 - x)
                      /\ BitOf(c, 2) = BitOf(bytes[y + (2 * TileDim)], TileDim - 1 - x)
               /\ \A u \in 0..(Len(SamplePixels) - 1) :
                      TileBytesOf(u) = bytes => importer.tiles8[u + 1] = importer.tiles8[t + 1]

\* the sheets are decoded: a pixel of every one of the three planes alone and
\* of all three together, and the same bytes in the first and in the last
\* sheet giving the same tile
C28_Witness ==
    /\ GraphicsLoaded
    /\ \E t \in 0..(SheetTiles - 1) :
           /\ importer.tiles8[t + 1][1][1] = 7
           /\ TileBytesOf(t)[0] >= 2 ^ (TileDim - 1)
           /\ TileBytesOf(t)[1] >= 2 ^ (TileDim - 1)
           /\ TileBytesOf(t)[2 * TileDim] >= 2 ^ (TileDim - 1)
    /\ \E t \in 0..(SheetTiles - 1) : importer.tiles8[t + 1][1][1] = 1
    /\ \E t \in 0..(SheetTiles - 1) : importer.tiles8[t + 1][1][TileDim] = 2
    /\ \E t \in 0..(SheetTiles - 1), u \in ((SheetCnt - 1) * SheetTiles)..(SheetCnt * SheetTiles - 1) :
           /\ TileBytesOf(t) = TileBytesOf(u)
           /\ importer.tiles8[t + 1] = importer.tiles8[u + 1]
           /\ importer.tiles8[t + 1] # BlankPixels

-----------------------------------------------------------------------------
(* Claims about the second auxiliary group of a slot (SpecImport)          *)

\* the slots whose resolved aux2 is none of the 20 imported auxiliary groups
Aux2OutOfRange ==
    {i \in 0..(MapCnt - 1) : importer.map_palettes[i + 1].aux2 >= 20}

\* C29: after load_map_palettes every slot's resolved aux2 selector is below
\* 20, also when it was obtained through the fallback to the previous slot's
\* palette set, so the lookup of the aux2 group among the 20 imported
\* auxiliary groups in load_areas is always in range.
C29_Aux2IsImported ==
    MapPalettesLoaded => Aux2OutOfRange = {}

\* the palette set of the region's slot and of the slot before it is the same
\* and its aux2 byte is 0xFF: the fallback stores 255 unchecked, and the
\* lookup in the 20 rows of aux_palette_ids panics while the region is built
C29_Witness ==
    /\ pc = "load_areas_loop"
    /\ import_result = "panic"
    /\ OwnAux2(parent) >= 20
    /\ importer.map_palettes[parent + 1].aux2 = image.pal_set[PrevPalSetOf(parent) * 4 + 1]
    /\ importer.map_palettes[parent + 1].aux2 = 255
    /\ Len(importer.aux_palette_ids) = 20
    /\ importer.map_palettes[parent + 1].main \in 0..5
    /\ importer.map_palettes[parent + 1].aux1 < 20
    /\ importer.map_palettes[parent + 1].animated < 14
    /\ ~GfxIdxsPanics(parent)
    /\ \A t8 \in RegionTile8s(parent) : t8.gfx_char < Len(GfxIdxs(parent))
    /\ \E t8 \in RegionTile8s(parent) :
           /\ t8.pal_idx \in 5..7
           /\ t8.gfx_char \div 64 \in {0, 3, 4, 5}
           /\ PaletteId(t8.pal_idx, TRUE, importer.map_palettes[parent + 1]).status = "panic"

-----------------------------------------------------------------------------
(* Claims about update and the undo and redo stacks (SpecUndo)             *)

\* the top of a stack and the stack without it
TopOf(stack) == stack[Len(stack)]

Below(stack) == SubSeq(stack, 1, Len(stack) - 1)

\* the last call of update was Ctrl+Z with an entry on the undo stack, or
\* Ctrl+Shift+Z with an entry on the redo stack
WasUndo == last_update.input = KeyZ(FALSE) /\ last_update.undo_before # <<>>

WasRedo == last_update.input = KeyZ(TRUE) /\ last_update.redo_before # <<>>

\* try_update returned Ok(Some(..)) for the message of the last call
Applied == last_update.outcome = "some"

\* the reverse of each reversible message of the model, by type
ReverseType ==
    [BrushColor |-> "BrushColor", AddPalette |-> "DeletePalette",
     DeletePalette |-> "RestorePalette", AddArea |-> "DeleteArea"]

\* a reversible edit that was applied is on top of the undo stack with its
\* reverse, and the redo stack is empty
EditIsRecorded ==
    ~WasUndo /\ ~WasRedo /\ Applied /\ last_update.message.type \in DOMAIN ReverseType =>
        /\ undo_stack # <<>>
        /\ Below(undo_stack) = last_update.undo_before
        /\ TopOf(undo_stack)[1] = last_update.message
        /\ TopOf(undo_stack)[2].type = ReverseType[last_update.message.type]
        /\ redo_stack = <<>>

\* undo moves the top undo entry to the redo stack and its reverse message is
\* the one handed to try_update; redo moves it back and hands over the message
UndoMovesTheEntry ==
    /\ WasUndo =>
           /\ undo_stack = Below(last_update.undo_before)
           /\ redo_stack = Append(last_update.redo_before, TopOf(last_update.undo_before))
           /\ last_update.message = TopOf(last_update.undo_before)[2]
    /\ WasRedo =>
           /\ undo_stack = Append(last_update.undo_before, TopOf(last_update.redo_before))
           /\ redo_stack = Below(last_update.redo_before)
           /\ last_update.message = TopOf(last_update.redo_before)[1]

\* the message of an undo or a redo is applied
UndoIsApplied == WasUndo \/ WasRedo => Applied

\* an undo immediately followed by a redo leaves both stacks as before
UndoRedoRoundTrip ==
    last_update.input = KeyZ(TRUE) /\ last_update.prev # <<>> =>
        <<undo_stack, redo_stack>> = last_update.prev

\* the irreversible messages of the model
IrreversibleTypes == {"DeleteArea"}

\* an irreversible message that was applied leaves both stacks empty
IrreversibleEmptiesBoth ==
    Applied /\ last_update.message.type \in IrreversibleTypes =>
        undo_stack = <<>> /\ redo_stack = <<>>

\* C30: a successfully applied reversible edit pushes (message, reverse) on
\* the undo stack and empties the redo stack; undo moves the top undo entry to
\* the redo stack and applies its reverse message, redo moves it back and
\* re-applies the message, and neither records a new undo entry; an undo
\* immediately followed by a redo leaves both stacks exactly as before; and a
\* successfully applied irreversible message (ROM import, project opened,
\* delete area, delete theme) empties both stacks.
C30_UndoRedoStacks ==
    /\ EditIsRecorded
    /\ UndoMovesTheEntry
    /\ UndoIsApplied
    /\ UndoRedoRoundTrip
    /\ IrreversibleEmptiesBoth

\* a palette was added and Ctrl+Z pressed before the project was saved: the
\* entry has moved to the redo stack, but DeletePalette found no file to
\* remove and returned an error, and the palette is still there
C30_Witness ==
    /\ WasUndo
    /\ last_update.undo_before =
           <<<<AddPalette([group |-> "Main", i |-> 0, j |-> 0], 1), DeletePalette(1)>>>>
    /\ last_update.message = DeletePalette(1)
    /\ last_update.outcome = "err"
    /\ undo_stack = <<>>
    /\ redo_stack = last_update.undo_before
    /\ Len(state.palettes) = 2
    /\ 1 \in DOMAIN state.palettes_id_idx_map
    /\ files.palettes = <<>>

=============================================================================
